---- MODULE Spec2Model ----
(***************************************************************************)
(* Vehicle damage inspection backend (backend/main.py and its services).   *)
(*                                                                         *)
(* The specifications share the variables below:                           *)
(*   SpecUpload   POST /bookings/{id}/images  (upload_booking_images)      *)
(*   SpecInspect  POST /inspect               (inspect_vehicle)            *)
(*   SpecParse    AIService._parse_gemini_response and the tail of         *)
(*                AIService.analyze_damage, as a function of the text      *)
(*   SpecAnnotate   ImageProcessor.create_bounded_images                   *)
(*   SpecRelocate   FileHandler.copy_multiple_to_permanent_storage         *)
(*   SpecConcurrent two upload requests served by one event loop           *)
(*   SpecCars       create_car / update_car run by the worker threads      *)
(*   SpecBookings   create_booking / update_booking run by worker threads  *)
(*   SpecClient     get_ai_service called by successive /inspect requests  *)
(*   SpecDraw       the colour and the label of one drawn damage item      *)
(* The file system is the pair tempFiles / permFiles, the database is      *)
(* bookings / bookingImages / inspections.                                 *)
(***************************************************************************)
EXTENDS Integers, Sequences, FiniteSets, TLC

VARIABLES
    tempFiles,      \* paths that exist under temp_images/
    permFiles,      \* paths that exist under uploads/
    bookings,       \* bookings table: id -> row (inspection_id column)
    bookingImages,  \* booking_images table, rows in insertion order
    inspections,    \* inspections table: set of rows
    ai_service,     \* the module global of main.py: "None" or "instance"
    apiKey,         \* whether GEMINI_API_KEY is set in the environment
    nextUuid,       \* uuid.uuid4(): every call yields a value never seen before
    up,             \* the upload request in flight (locals of upload_booking_images)
    insp,           \* the inspection request in flight (locals of inspect_vehicle)
    pz,             \* SpecParse: the text under test and what the parser did with it
    ann,            \* SpecAnnotate: one call of ImageProcessor.create_bounded_images
    reloc,          \* SpecRelocate: one call of FileHandler.copy_multiple_to_permanent_storage
    cc,             \* SpecConcurrent: the upload requests in flight, by request
    cars,           \* cars table, rows in insertion order (SpecCars)
    carReq,         \* SpecCars: the create-car / update-car requests in flight
    cl,             \* SpecClient: the inspection requests that ask for the AI client
    bkReq,          \* SpecBookings: the create-booking / update-booking requests in flight
    dr              \* SpecDraw: one damage item drawn by draw_bounding_boxes

vars == <<tempFiles, permFiles, bookings, bookingImages, inspections,
          ai_service, apiKey, nextUuid, up, insp, pz, ann, reloc, cc,
          cars, carReq, cl, bkReq, dr>>

----------------------------------------------------------------------------
(* Bounds of the model *)

MaxImages == 2          \* images in one upload request / per type on a booking
MaxTextLen == 3         \* tokens in a model response (SpecParse)
MaxProviderTextLen == 1 \* tokens in a model response (SpecInspect)
MaxDamages == 2         \* items in the new_damage list of a report (SpecAnnotate)
MaxClients == 3         \* /inspect requests that ask for the AI client (SpecClient)

----------------------------------------------------------------------------
(* Small helpers *)

None == "None"

\* The NULL of a column that holds a generated id
NoId == 0

Range(s) == {s[i] : i \in 1..Len(s)}

SeqsUpTo(S, n) == UNION {[1..k -> S] : k \in 0..n}

NonEmptySeqsUpTo(S, n) == UNION {[1..k -> S] : k \in 1..n}

----------------------------------------------------------------------------
(* utils/validators.py *)

ALLOWED_EXTENSIONS == {".jpg", ".jpeg", ".png", ".webp"}

ALLOWED_MIME_TYPES == {"image/jpeg", "image/jpg", "image/png", "image/webp"}

MAX_FILE_SIZE == 10 * 1024 * 1024

\* An UploadFile as the validators and save_temp_file see it: filename (""
\* when absent), the lower-cased suffix of the filename, the declared
\* content type, and the number of bytes read() yields, which is the size
\* of the file save_temp_file writes.
UploadFiles ==
    { [filename |-> "car.jpg",  ext |-> ".jpg", content_type |-> "image/jpeg",
       size |-> 1024],
      [filename |-> "car.png",  ext |-> ".png", content_type |-> "image/png",
       size |-> MAX_FILE_SIZE],
      [filename |-> "car.gif",  ext |-> ".gif", content_type |-> "image/jpeg",
       size |-> 1024],
      [filename |-> "car.jpg",  ext |-> ".jpg", content_type |-> "text/plain",
       size |-> 1024],
      [filename |-> "",         ext |-> "",     content_type |-> "image/jpeg",
       size |-> 1024],
      [filename |-> "big.jpg",  ext |-> ".jpg", content_type |-> "image/jpeg",
       size |-> MAX_FILE_SIZE + 1] }

\* validate_file_size(file_path): "ok", or the exception it raises, for a
\* file of file_size bytes.  No handler calls it.
validate_file_size(file_size) ==
    IF file_size > MAX_FILE_SIZE THEN "ValueError" ELSE "ok"

validate_image_file_NoMimeCheck(file) ==
    IF file.filename = "" THEN "ValueError"
    ELSE IF file.ext \notin ALLOWED_EXTENSIONS THEN "ValueError"
    ELSE "ok"

\* validate_image_file: "ok", or the exception it raises.
validate_image_file(file) ==
    IF file.filename = "" THEN "ValueError"
    ELSE IF file.ext \notin ALLOWED_EXTENSIONS THEN "ValueError"
    ELSE IF file.content_type \notin ALLOWED_MIME_TYPES THEN "ValueError"
    ELSE "ok"

\* The loop `for img in images: validate_image_file(img)`: the exception of
\* the first image that fails, "ok" when none does.
ValidateAll(images) ==
    IF \E i \in 1..Len(images) : validate_image_file(images[i]) # "ok"
    THEN LET i == CHOOSE i \in 1..Len(images) :
                    /\ validate_image_file(images[i]) # "ok"
                    /\ \A j \in 1..(i-1) : validate_image_file(images[j]) = "ok"
         IN validate_image_file(images[i])
    ELSE "ok"

----------------------------------------------------------------------------
(* POST /bookings/{booking_id}/images : upload_booking_images *)

ImageTypes == {"before", "after"}

Angles == {"front"}

BookingIds == {1, 2}      \* booking ids a request may name; only 1 is stored

TempPathByExtension(uuid, ext) == [uuid |-> 0, ext |-> ext]

\* temp_images/<uuid><ext>
TempPath(uuid, ext) == [uuid |-> uuid, ext |-> ext]

\* uploads/<date>/<inspection_id>/<image_type><angle_suffix><ext>
PermPath(dir, image_type, suffix, ext) ==
    [dir |-> dir, image_type |-> image_type, suffix |-> suffix, ext |-> ext]

\* angle_suffix of the idx-th image (idx is 1-based here, 0-based in the code)
AngleSuffix(angles, idx) ==
    IF angles # <<>> /\ idx <= Len(angles) THEN angles[idx] ELSE ToString(idx)

UploadErrorStatusClient(exc) ==
    IF exc.type = "HTTPException" THEN exc.status ELSE 400

\* How an exception that leaves the handler's outer try is answered:
\* HTTPException is re-raised as it is, anything else becomes a 500.
UploadErrorStatus(exc) ==
    IF exc.type = "HTTPException" THEN exc.status ELSE 500

UpIdle ==
    [pc |-> "idle", booking_id |-> 0, image_type |-> "before", images |-> <<>>,
     angles |-> <<>>, temp_paths |-> <<>>, written |-> {}, inspection_dir |-> 0,
     permanent_paths |-> <<>>, copied |-> {}, status |-> 0, error |-> None,
     failed |-> None, cleanups |-> 0, stuck |-> {}, created |-> 0,
     snap |-> [temp |-> {}, perm |-> {}, rows |-> <<>>]]

\* Lines 997-1015: booking lookup, validation of every file, angles check.
\* No file and no row is touched here.
UploadBegin(booking_id, image_type, images, angles) ==
    /\ up.pc = "idle"
    /\ LET fresh == [UpIdle EXCEPT !.booking_id = booking_id,
                                   !.image_type = image_type,
                                   !.images = images,
                                   !.angles = angles,
                                   !.snap = [temp |-> tempFiles,
                                             perm |-> permFiles,
                                             rows |-> bookingImages]]
           fail(exc, where) == [fresh EXCEPT !.pc = "done",
                                             !.status = UploadErrorStatus(exc),
                                             !.error = exc.type,
                                             !.failed = where]
       IN up' =
            IF booking_id \notin DOMAIN bookings
            THEN fail([type |-> "HTTPException", status |-> 400], "lookup")
            ELSE IF ValidateAll(images) # "ok"
            THEN fail([type |-> ValidateAll(images), status |-> 0], "validate")
            ELSE IF angles # <<>> /\ Len(angles) # Len(images)
            THEN fail([type |-> "HTTPException", status |-> 400], "angles")
            ELSE [fresh EXCEPT !.pc = "stage"]
    /\ UNCHANGED <<tempFiles, permFiles, bookings, bookingImages, inspections,
                   ai_service, apiKey, nextUuid, insp, pz,
                   ann, reloc, cc,
                   cars, carReq, cl, bkReq, dr>>

\* Lines 1017-1021 with FileHandler.save_temp_file: stage the next image.
\*   "ok"          the file is written and its path appended to temp_paths
\*   "open_fail"   aiofiles.open raises: nothing is created
\*   "write_fail"  read()/write() raises after open created the file
\* A failure is raised as Exception("Failed to save file"); the loop is
\* outside the try/finally, so the handler leaves through `except Exception`.
SaveTempFile(outcome) ==
    /\ up.pc = "stage"
    /\ Len(up.temp_paths) < Len(up.images)
    /\ LET img == up.images[Len(up.temp_paths) + 1]
           path == TempPath(nextUuid, img.ext)
       IN /\ nextUuid' = nextUuid + 1
          /\ CASE outcome = "ok" ->
                    /\ tempFiles' = tempFiles \cup {path}
                    /\ up' = [up EXCEPT
                                !.temp_paths = Append(@, path),
                                !.written = @ \cup {path},
                                !.pc = IF Len(up.temp_paths) + 1 = Len(up.images)
                                       THEN "mkdir" ELSE "stage"]
               [] outcome = "open_fail" ->
                    /\ tempFiles' = tempFiles
                    /\ up' = [up EXCEPT
                                !.pc = "done",
                                !.status = UploadErrorStatus([type |-> "Exception", status |-> 0]),
                                !.error = "Exception",
                                !.failed = "stage"]
               [] outcome = "write_fail" ->
                    /\ tempFiles' = tempFiles \cup {path}
                    /\ up' = [up EXCEPT
                                !.written = @ \cup {path},
                                !.pc = "done",
                                !.status = UploadErrorStatus([type |-> "Exception", status |-> 0]),
                                !.error = "Exception",
                                !.failed = "stage"]
    /\ UNCHANGED <<permFiles, bookings, bookingImages, inspections,
                   ai_service, apiKey, insp, pz, ann, reloc, cc,
                   cars, carReq, cl, bkReq, dr>>

\* Lines 1025-1028: a fresh inspection id and its directory.  A failing
\* mkdir raises inside the inner try, so the finally clause runs next.
MakeInspectionDir(outcome) ==
    /\ up.pc = "mkdir"
    /\ nextUuid' = nextUuid + 1
    /\ up' = IF outcome = "ok"
             THEN [up EXCEPT !.inspection_dir = nextUuid, !.pc = "copy"]
             ELSE [up EXCEPT !.error = "OSError", !.failed = "mkdir",
                             !.pc = "cleanup"]
    /\ UNCHANGED <<tempFiles, permFiles, bookings, bookingImages, inspections,
                   ai_service, apiKey, insp, pz, ann, reloc, cc,
                   cars, carReq, cl, bkReq, dr>>

\* Lines 1031-1036: shutil.copy2 of the next staged file; an existing
\* destination is overwritten.
CopyToPermanent(outcome) ==
    /\ up.pc = "copy"
    /\ Len(up.permanent_paths) < Len(up.temp_paths)
    /\ LET idx == Len(up.permanent_paths) + 1
           temp_path == up.temp_paths[idx]
           perm_path == PermPath(up.inspection_dir, up.image_type,
                                 AngleSuffix(up.angles, idx), temp_path.ext)
       IN IF outcome = "ok" /\ temp_path \in tempFiles
          THEN /\ permFiles' = permFiles \cup {perm_path}
               /\ up' = [up EXCEPT
                           !.permanent_paths = Append(@, perm_path),
                           !.copied = @ \cup {temp_path},
                           !.pc = IF idx = Len(up.temp_paths)
                                  THEN "record" ELSE "copy"]
          ELSE /\ permFiles' = permFiles
               /\ up' = [up EXCEPT !.error = "OSError", !.failed = "copy",
                                   !.pc = "cleanup"]
    /\ UNCHANGED <<tempFiles, bookings, bookingImages, inspections,
                   ai_service, apiKey, nextUuid, insp, pz,
                   ann, reloc, cc,
                   cars, carReq, cl, bkReq, dr>>

\* What datetime.utcnow() gives for the rows of one flush: a later value
\* for each row, or one value for all of them (two calls within the same
\* clock tick).
Clocks == {"distinct", "same"}

\* The newest created_at stored so far
MaxCreatedAt(rows) ==
    IF rows = <<>> THEN 0
    ELSE CHOOSE t \in {rows[i].created_at : i \in 1..Len(rows)} :
            \A i \in 1..Len(rows) : rows[i].created_at <= t

\* Column(DateTime, default=datetime.utcnow) for the i-th row of a flush
utcnow(rows, i, clock) ==
    MaxCreatedAt(rows) + (IF clock = "same" THEN 1 ELSE i)

\* BookingImageService.create_multiple_booking_images: one row per path,
\* added in order and committed together; a failing commit is rolled back
\* and re-raised.
create_multiple_booking_images(rows, booking_id, image_paths, image_type, angles, clock) ==
    rows \o [i \in 1..Len(image_paths) |->
               [id |-> Len(rows) + i,
                booking_id |-> booking_id,
                image_type |-> image_type,
                image_path |-> image_paths[i],
                angle |-> IF angles # <<>> /\ i <= Len(angles)
                          THEN angles[i] ELSE None,
                created_at |-> utcnow(rows, i, clock)]]

\* Lines 1038-1047.
CreateBookingImages(outcome, clock) ==
    /\ up.pc = "record"
    /\ IF outcome = "ok"
       THEN /\ bookingImages' = create_multiple_booking_images(
                    bookingImages, up.booking_id, up.permanent_paths,
                    up.image_type, up.angles, clock)
            /\ up' = [up EXCEPT !.created = Len(up.permanent_paths),
                                !.pc = "cleanup"]
       ELSE /\ bookingImages' = bookingImages
            /\ up' = [up EXCEPT !.error = "SQLAlchemyError",
                                !.failed = "record", !.pc = "cleanup"]
    /\ UNCHANGED <<tempFiles, permFiles, bookings, inspections,
                   ai_service, apiKey, nextUuid, insp, pz,
                   ann, reloc, cc,
                   cars, carReq, cl, bkReq, dr>>

cleanup_temp_files_Unguarded(files, file_paths, stuck) ==
    LET failing == {i \in 1..Len(file_paths) : file_paths[i] \in stuck \cap files}
        stop == IF failing = {} THEN Len(file_paths) + 1
                ELSE CHOOSE i \in failing : \A j \in failing : i <= j
    IN files \ {file_paths[i] : i \in 1..(stop - 1)}

\* FileHandler.cleanup_temp_files: every listed path that exists is removed;
\* an os.remove that raises (the paths in `stuck`) is logged and skipped.
cleanup_temp_files(files, file_paths, stuck) ==
    files \ (Range(file_paths) \ stuck)

\* Lines 1055-1063: the finally clause, then the 201 response or, when the
\* inner try raised, `except Exception` -> 500.
CleanupAndRespond(stuck) ==
    /\ up.pc = "cleanup"
    /\ stuck \subseteq Range(up.temp_paths)
    /\ tempFiles' = cleanup_temp_files(tempFiles, up.temp_paths, stuck)
    /\ up' = [up EXCEPT
                !.cleanups = @ + 1,
                !.stuck = stuck \cap tempFiles,
                !.pc = "done",
                !.status = IF up.error = None THEN 201
                           ELSE UploadErrorStatus([type |-> up.error, status |-> 0])]
    /\ UNCHANGED <<permFiles, bookings, bookingImages, inspections,
                   ai_service, apiKey, nextUuid, insp, pz,
                   ann, reloc, cc,
                   cars, carReq, cl, bkReq, dr>>

IoOutcomes == {"ok", "fail"}

SaveOutcomes == {"ok", "open_fail", "write_fail"}

UploadInputs ==
    [booking_id : BookingIds,
     image_type : ImageTypes,
     images : NonEmptySeqsUpTo(UploadFiles, MaxImages),
     angles : SeqsUpTo(Angles, MaxImages)]

UploadBeginAny ==
    \E r \in UploadInputs : UploadBegin(r.booking_id, r.image_type, r.images, r.angles)

SaveTempFileAny == \E o \in SaveOutcomes : SaveTempFile(o)

MakeInspectionDirAny == \E o \in IoOutcomes : MakeInspectionDir(o)

CopyToPermanentAny == \E o \in IoOutcomes : CopyToPermanent(o)

CreateBookingImagesAny ==
    \E o \in IoOutcomes, clock \in Clocks : CreateBookingImages(o, clock)

CleanupAndRespondAny == \E stuck \in SUBSET Range(up.temp_paths) : CleanupAndRespond(stuck)

InspIdle == [pc |-> "idle"]

PzIdle == [pc |-> "idle", text |-> <<>>]

AnnIdle == [pc |-> "idle"]

RelocIdle == [pc |-> "idle"]

CcIdle == <<>>

CarReqIdle == <<>>

ClIdle == <<>>

BkReqIdle == <<>>

DrIdle == [pc |-> "idle"]

\* What an earlier upload of `exts` to booking 1 left behind: its directory
\* `dir`, one file and one row per image.
UploadedPaths(dir, image_type, exts) ==
    [i \in 1..Len(exts) |-> PermPath(dir, image_type, ToString(i), exts[i])]

\* The server before the request: a new database with booking 1, or the
\* state after one earlier upload (uuid 1 for its temp file, 2 for its
\* directory), whose temp file was removed or, its os.remove having
\* failed, is still there.
InitUpload ==
    /\ \E prior \in {"none", "clean", "leftover"} :
         /\ tempFiles = IF prior = "leftover" THEN {TempPath(1, ".jpg")} ELSE {}
         /\ permFiles = IF prior = "none" THEN {}
                        ELSE Range(UploadedPaths(2, "before", <<".jpg">>))
         /\ bookingImages =
                IF prior = "none" THEN <<>>
                ELSE create_multiple_booking_images(
                        <<>>, 1, UploadedPaths(2, "before", <<".jpg">>), "before", <<>>,
                        "distinct")
         /\ nextUuid = IF prior = "none" THEN 1 ELSE 3
    /\ bookings = [b \in {1} |-> [car_id |-> 1, inspection_id |-> NoId]]
    /\ inspections = {}
    /\ ai_service = None
    /\ apiKey = TRUE
    /\ up = UpIdle
    /\ insp = InspIdle
    /\ pz = PzIdle
    /\ ann = AnnIdle
    /\ reloc = RelocIdle
    /\ cc = CcIdle
    /\ cars = <<>>
    /\ carReq = CarReqIdle
    /\ cl = ClIdle
    /\ bkReq = BkReqIdle
    /\ dr = DrIdle

NextUpload ==
    \/ UploadBeginAny
    \/ SaveTempFileAny
    \/ MakeInspectionDirAny
    \/ CopyToPermanentAny
    \/ CreateBookingImagesAny
    \/ CleanupAndRespondAny

SpecUpload == InitUpload /\ [][NextUpload]_vars

----------------------------------------------------------------------------
(* services/ai_service.py : the model's text and AIService._parse_gemini_response *)

\* A response text is a sequence of tokens:
\*   "W"   a run of white space
\*   "F"   the three back-ticks of a code fence
\*   "FJ"  the seven characters of an opening fence followed by json
\*   "J"   the four characters json (what [3:] leaves of "FJ")
\*   "G"   prose or anything else that is no JSON value
\*   a document token: the text of one JSON value
DocTokens ==
    {"D_FULL", "D_EMPTY", "D_NOTOTAL", "D_NOKEY", "D_NDNULL",
     "D_LIST", "D_LISTND", "D_STR", "D_STRND", "D_TRUE", "D_NULL"}

TextTokens == {"W", "F", "FJ", "G"} \cup DocTokens

Texts(n) == SeqsUpTo(TextTokens, n)

\* A decoded JSON value.  type is the Python type json.loads gives; keys,
\* new_damage, nd_type, total, summary and error describe a dict; holds_nd
\* says whether "new_damage" is an element of a list or a substring of a str.
JsonValue(type, keys, new_damage, nd_type, total, summary, error, holds_nd) ==
    [type |-> type, keys |-> keys, new_damage |-> new_damage, nd_type |-> nd_type,
     total |-> total, summary |-> summary, error |-> error, holds_nd |-> holds_nd]

NoJson == JsonValue("none", {}, <<>>, "absent", 0, "", "", FALSE)

DamageItem(car_part, severity, cost, image_index) ==
    [car_part |-> car_part, severity |-> severity,
     estimated_cost_usd |-> cost, image_index |-> image_index]

ReportKeys == {"new_damage", "total_estimated_cost_usd", "summary"}

\* json.loads of a document token.  D_FULL reports a total (450) that is
\* not the sum of its items' costs (300).
Decode(tok) ==
    CASE tok = "D_FULL" ->
            JsonValue("dict", ReportKeys,
                      <<DamageItem("door", "major", 100, 2),
                        DamageItem("bumper", "minor", 200, 1)>>,
                      "list", 450, "Two new damages", "", FALSE)
      [] tok = "D_EMPTY" ->
            JsonValue("dict", ReportKeys, <<>>, "list", 0,
                      "No new damage detected.", "", FALSE)
      [] tok = "D_NOTOTAL" ->
            JsonValue("dict", {"new_damage", "summary"},
                      <<DamageItem("hood", "moderate", 70, 1)>>,
                      "list", 0, "One new damage", "", FALSE)
      [] tok = "D_NOKEY" ->
            JsonValue("dict", {"total_estimated_cost_usd", "summary"},
                      <<>>, "absent", 120, "No list", "", FALSE)
      [] tok = "D_NDNULL" ->
            JsonValue("dict", ReportKeys, <<>>, "NoneType", 0, "Null list", "", FALSE)
      [] tok = "D_LIST"   -> JsonValue("list", {}, <<>>, "absent", 0, "", "", FALSE)
      [] tok = "D_LISTND" -> JsonValue("list", {}, <<>>, "absent", 0, "", "", TRUE)
      [] tok = "D_STR"    -> JsonValue("str", {}, <<>>, "absent", 0, "", "", FALSE)
      [] tok = "D_STRND"  -> JsonValue("str", {}, <<>>, "absent", 0, "", "", TRUE)
      [] tok = "D_TRUE"   -> JsonValue("bool", {}, <<>>, "absent", 0, "", "", FALSE)
      [] tok = "D_NULL"   -> JsonValue("NoneType", {}, <<>>, "absent", 0, "", "", FALSE)

\* str.strip(): leading and trailing white space removed
RECURSIVE LStrip(_)
LStrip(s) == IF s # <<>> /\ Head(s) = "W" THEN LStrip(Tail(s)) ELSE s

RECURSIVE RStrip(_)
RStrip(s) ==
    IF s # <<>> /\ s[Len(s)] = "W" THEN RStrip(SubSeq(s, 1, Len(s) - 1)) ELSE s

Strip(s) == RStrip(LStrip(s))

\* Lines 199-200: if cleaned_text.startswith("```json"): cleaned_text[7:]
DropJsonFence(s) ==
    IF s # <<>> /\ Head(s) = "FJ" THEN Tail(s) ELSE s

\* Lines 201-202: if cleaned_text.startswith("```"): cleaned_text[3:]
DropOpeningFence(s) ==
    IF s # <<>> /\ Head(s) = "F" THEN Tail(s)
    ELSE IF s # <<>> /\ Head(s) = "FJ" THEN <<"J">> \o Tail(s)
    ELSE s

\* Lines 203-204: if cleaned_text.endswith("```"): cleaned_text[:-3]
DropClosingFence(s) ==
    IF s # <<>> /\ s[Len(s)] = "F" THEN SubSeq(s, 1, Len(s) - 1) ELSE s

\* Lines 196-206
CleanText(response_text) ==
    Strip(DropClosingFence(DropOpeningFence(DropJsonFence(Strip(response_text)))))

\* json.loads(cleaned_text): a value when the text is exactly one JSON
\* value, JSONDecodeError otherwise (empty text, prose, a fence left over,
\* extra data after the value).
json_loads(cleaned_text) ==
    IF Len(cleaned_text) = 1 /\ cleaned_text[1] \in DocTokens
    THEN [ok |-> TRUE, value |-> Decode(cleaned_text[1])]
    ELSE [ok |-> FALSE, value |-> NoJson]

Returned(value) == [kind |-> "return", value |-> value, exc |-> None]

Raised(exc) == [kind |-> "raise", value |-> NoJson, exc |-> exc]

\* len(report.get('new_damage', [])) on a value of the given Python type
LenNewDamage(report) ==
    IF report.type # "dict" THEN "AttributeError"
    ELSE IF "new_damage" \in report.keys /\ report.nd_type \notin {"list", "str", "dict"}
    THEN "TypeError"
    ELSE "ok"

\* Lines 211-217: `"new_damage" not in report`, the log line, `return report`
ValidateStructure(report) ==
    IF report.type \in {"bool", "NoneType", "int", "float"} THEN Raised("TypeError")
    ELSE IF report.type = "dict" /\ "new_damage" \notin report.keys THEN Raised("ValueError")
    ELSE IF report.type \in {"list", "str"} /\ ~report.holds_nd THEN Raised("ValueError")
    ELSE IF LenNewDamage(report) # "ok" THEN Raised(LenNewDamage(report))
    ELSE Returned(report)

ParseFallbackReraise == Raised("JSONDecodeError")

\* Lines 219-229: `except json.JSONDecodeError` returns the fallback report
ParseFallback ==
    Returned(JsonValue("dict", ReportKeys \cup {"error"}, <<>>, "list", 0,
                       "Error parsing AI response", "JSONDecodeError", FALSE))

\* AIService._parse_gemini_response
parse_gemini_response(response_text) ==
    LET loaded == json_loads(CleanText(response_text))
    IN IF loaded.ok THEN ValidateStructure(loaded.value) ELSE ParseFallback

AnalyzeDamageReraise(exc) == exc

\* Lines 180-182: whatever is raised inside analyze_damage leaves it as a
\* plain Exception("AI analysis failed: ...")
AnalyzeDamageRaise(exc) == "Exception"

\* Lines 171-182: the response text is parsed, the number of damages is
\* logged and {"report": report} is returned.
AnalyzeResponseText(response_text) ==
    LET parsed == parse_gemini_response(response_text)
    IN IF parsed.kind = "raise" THEN Raised(AnalyzeDamageRaise(parsed.exc))
       ELSE IF LenNewDamage(parsed.value) # "ok"
       THEN Raised(AnalyzeDamageRaise(LenNewDamage(parsed.value)))
       ELSE parsed

PzStart(text) == [pc |-> "text", text |-> text, parsed |-> Raised(None),
                  analysis |-> Raised(None)]

\* The parser and the tail of analyze_damage applied to the text.
ParseResponse ==
    /\ pz.pc = "text"
    /\ pz' = [pz EXCEPT !.pc = "parsed",
                        !.parsed = parse_gemini_response(pz.text),
                        !.analysis = AnalyzeResponseText(pz.text)]
    /\ UNCHANGED <<tempFiles, permFiles, bookings, bookingImages, inspections,
                   ai_service, apiKey, nextUuid, up, insp,
                   ann, reloc, cc,
                   cars, carReq, cl, bkReq, dr>>

InitParse ==
    /\ pz \in {PzStart(t) : t \in Texts(MaxTextLen)}
    /\ tempFiles = {}
    /\ permFiles = {}
    /\ bookings = [b \in {1} |-> [car_id |-> 1, inspection_id |-> NoId]]
    /\ bookingImages = <<>>
    /\ inspections = {}
    /\ ai_service = "instance"
    /\ apiKey = TRUE
    /\ nextUuid = 1
    /\ up = UpIdle
    /\ insp = InspIdle
    /\ ann = AnnIdle
    /\ reloc = RelocIdle
    /\ cc = CcIdle
    /\ cars = <<>>
    /\ carReq = CarReqIdle
    /\ cl = ClIdle
    /\ bkReq = BkReqIdle
    /\ dr = DrIdle

NextParse == ParseResponse

SpecParse == InitParse /\ [][NextParse]_vars

----------------------------------------------------------------------------
(* POST /inspect : inspect_vehicle, AIService.analyze_damage,
   InspectionService.create_inspection *)

NoPath == PermPath(NoId, "", "", "")

\* The fixed instruction text, first element of the content list
DAMAGE_ANALYSIS_PROMPT == [kind |-> "prompt", type |-> "", index |-> 0, path |-> NoPath]

\* f"BEFORE Image {i}:" / f"AFTER Image {i}:"
ContentLabel(type, i) == [kind |-> "label", type |-> type, index |-> i, path |-> NoPath]

\* Image.open(path): the image object of that file
ContentImage(path) == [kind |-> "image", type |-> "", index |-> 0, path |-> path]

\* f"BEFORE Image {i}:", image, ... for enumerate(paths, 1)
RECURSIVE LabelledImages(_, _, _)
LabelledImages(type, paths, i) ==
    IF i > Len(paths) THEN <<>>
    ELSE <<ContentLabel(type, i), ContentImage(paths[i])>>
         \o LabelledImages(type, paths, i + 1)

BuildContentAfterFirst(before_image_paths, after_image_paths) ==
    <<DAMAGE_ANALYSIS_PROMPT>>
        \o LabelledImages("AFTER", after_image_paths, 1)
        \o LabelledImages("BEFORE", before_image_paths, 1)

\* Lines 152-165 of ai_service.py: the content list given to generate_content
BuildContent(before_image_paths, after_image_paths) ==
    <<DAMAGE_ANALYSIS_PROMPT>>
        \o LabelledImages("BEFORE", before_image_paths, 1)
        \o LabelledImages("AFTER", after_image_paths, 1)

\* Lines 134-137: query.filter(BookingImage.booking_id == booking_id), the
\* rows of the booking in the order they were inserted
RECURSIVE SelectRows(_, _)
SelectRows(rows, booking_id) ==
    IF rows = <<>> THEN <<>>
    ELSE IF Head(rows).booking_id = booking_id
         THEN <<Head(rows)>> \o SelectRows(Tail(rows), booking_id)
         ELSE SelectRows(Tail(rows), booking_id)

\* The sequences that hold every element of S once, in ascending
\* created_at order; rows with equal created_at come in any order
RECURSIVE OrderByCreatedAt(_)
OrderByCreatedAt(S) ==
    IF S = {} THEN {<<>>}
    ELSE UNION {{<<x>> \o t : t \in OrderByCreatedAt(S \ {x})} :
                   x \in {y \in S : \A z \in S : y.created_at <= z.created_at}}

\* Line 141: query.order_by(BookingImage.created_at.asc()).all().
\* created_at is the only sort key, so the database may return rows with
\* the same created_at in any order: the possible results of the call.
get_booking_images(rows, booking_id) ==
    OrderByCreatedAt(Range(SelectRows(rows, booking_id)))

\* [img.image_path for img in booking_images if img.image_type == type]
RECURSIVE PathsOfType(_, _)
PathsOfType(rows, image_type) ==
    IF rows = <<>> THEN <<>>
    ELSE IF Head(rows).image_type = image_type
         THEN <<Head(rows).image_path>> \o PathsOfType(Tail(rows), image_type)
         ELSE PathsOfType(Tail(rows), image_type)

\* Lines 391-400 of main.py: ValueError -> 400, any other exception,
\* HTTPException included, -> 500
InspectErrorStatus(exc) ==
    IF exc = "ValueError" THEN 400 ELSE 500

TotalCostRecomputed(damage_report) ==
    LET RECURSIVE Sum(_)
        Sum(items) == IF items = <<>> THEN 0
                      ELSE Head(items).estimated_cost_usd + Sum(Tail(items))
    IN Sum(damage_report.new_damage)

\* Line 365: damage_report.get("total_estimated_cost_usd", 0.0)
TotalCost(damage_report) ==
    IF "total_estimated_cost_usd" \in damage_report.keys
    THEN damage_report.total ELSE 0

\* Parameters of InspectionService.create_inspection after db, and those
\* that have a default
CreateInspectionParams ==
    <<"inspection_id", "car_name", "car_model", "car_year", "damage_report",
      "total_damage_cost", "before_images", "after_images", "bounded_images">>

CreateInspectionDefaults == {"bounded_images"}

\* The expressions inspect_vehicle passes after db, in order (lines 366-373)
InspectCallArgs ==
    <<"inspection_id", "car_id", "damage_report", "total_cost", "booking_id">>

\* Python's positional binding: the parameters left without a value
MissingParams(params, defaults, args) ==
    {params[i] : i \in (Len(args) + 1)..Len(params)} \ defaults

\* Keyword arguments of Inspection(...) in create_inspection (lines 47-57)
InspectionKwargs ==
    {"id", "car_name", "car_model", "car_year", "damage_report",
     "total_damage_cost", "before_images", "after_images", "bounded_images"}

\* Attributes of the mapped class Inspection (models/database.py)
InspectionAttributes ==
    {"id", "booking_id", "car_id", "damage_report", "total_damage_cost",
     "created_at", "booking", "car"}

\* The exception the call of create_inspection ends with, None when the row
\* is committed: a TypeError when a required parameter gets no argument or
\* when the declarative constructor is given a keyword that is no attribute
\* of the class; a failing commit is rolled back and re-raised.
create_inspection(args, commit) ==
    IF MissingParams(CreateInspectionParams, CreateInspectionDefaults, args) # {}
    THEN "TypeError"
    ELSE IF ~(InspectionKwargs \subseteq InspectionAttributes) THEN "TypeError"
    ELSE IF commit # "ok" THEN "SQLAlchemyError"
    ELSE None

\* InspectionService.get_inspection: the rows with that id (id is the primary
\* key, so at most one); the empty set stands for None
get_inspection(rows, inspection_id) ==
    IF \E r \in rows : r.id = inspection_id
    THEN {r \in rows : r.id = inspection_id}
    ELSE {}

\* BookingService.update_booking(db, id, BookingUpdate(inspection_id=...))
update_booking(table, booking_id, inspection_id) ==
    IF booking_id \in DOMAIN table
    THEN [table EXCEPT ![booking_id].inspection_id = inspection_id]
    ELSE table

NoResponse == [inspection_id |-> NoId, report |-> NoJson,
               before |-> <<>>, after |-> <<>>]

InspStart ==
    [pc |-> "idle", booking_id |-> 0, before_paths |-> <<>>, after_paths |-> <<>>,
     content |-> <<>>, calls |-> 0, provider |-> None, text |-> <<>>,
     analysis |-> Raised(None), inspection_id |-> NoId, total_cost |-> 0,
     call_args |-> <<>>, commit |-> None, status |-> 0, error |-> None,
     failed |-> None, response |-> NoResponse,
     snap |-> [inspection_id |-> NoId, inspections |-> {}]]

InspectFail(r, exc, where) ==
    [r EXCEPT !.pc = "done", !.error = exc, !.failed = where,
              !.status = InspectErrorStatus(exc)]

\* Lines 310-345: the booking, its images, the two path lists.  The
\* HTTPException(404) and HTTPException(400) raised here are raised inside
\* the try block.
InspectBegin(booking_id, images) ==
    /\ insp.pc = "idle"
    /\ images \in get_booking_images(bookingImages, booking_id)
    /\ LET before == PathsOfType(images, "before")
           after == PathsOfType(images, "after")
           r == [InspStart EXCEPT
                    !.booking_id = booking_id,
                    !.snap = [inspection_id |->
                                 IF booking_id \in DOMAIN bookings
                                 THEN bookings[booking_id].inspection_id ELSE NoId,
                              inspections |-> inspections]]
       IN insp' =
            IF booking_id \notin DOMAIN bookings
            THEN InspectFail(r, "HTTPException", "lookup")
            ELSE IF before = <<>> \/ after = <<>>
            THEN InspectFail(r, "HTTPException", "images")
            ELSE [r EXCEPT !.pc = "service", !.before_paths = before,
                           !.after_paths = after]
    /\ UNCHANGED <<tempFiles, permFiles, bookings, bookingImages, inspections,
                   ai_service, apiKey, nextUuid, up, pz,
                   ann, reloc, cc,
                   cars, carReq, cl, bkReq, dr>>

\* get_ai_service (lines 191-201) and lines 348-353: the global is set by
\* the first successful AIService(); without GEMINI_API_KEY the constructor
\* raises ValueError, None comes back and the handler raises HTTPException(500).
GetAiService ==
    /\ insp.pc = "service"
    /\ IF ai_service = None /\ ~apiKey
       THEN /\ ai_service' = None
            /\ insp' = InspectFail(insp, "HTTPException", "service")
       ELSE /\ ai_service' = "instance"
            /\ insp' = [insp EXCEPT !.pc = "analyze"]
    /\ UNCHANGED <<tempFiles, permFiles, bookings, bookingImages, inspections,
                   apiKey, nextUuid, up, pz, ann, reloc, cc,
                   cars, carReq, cl, bkReq, dr>>

\* What the provider does with the one generate_content call:
\*   "raise"    the call raises (transport or provider error)
\*   "no_text"  a response comes back whose .text accessor raises ValueError
\*   "text"     a response with text
ProviderOutcomes ==
    {[kind |-> "raise", text |-> <<>>], [kind |-> "no_text", text |-> <<>>]}
        \cup {[kind |-> "text", text |-> t] : t \in Texts(MaxProviderTextLen)}

\* Line 354 with AIService.analyze_damage: every image file is opened, the
\* content is sent once, the text is parsed.
AnalyzeDamage(outcome) ==
    /\ insp.pc = "analyze"
    /\ LET paths == Range(insp.before_paths) \cup Range(insp.after_paths)
           content == BuildContent(insp.before_paths, insp.after_paths)
           sent == [insp EXCEPT !.content = content, !.calls = @ + 1,
                                !.provider = outcome.kind, !.text = outcome.text]
       IN insp' =
            IF ~(paths \subseteq permFiles)
            THEN InspectFail(insp, AnalyzeDamageRaise("FileNotFoundError"), "open")
            ELSE IF outcome.kind = "raise"
            THEN InspectFail(sent, AnalyzeDamageRaise("Exception"), "provider")
            ELSE IF outcome.kind = "no_text"
            THEN InspectFail(sent, AnalyzeDamageRaise("ValueError"), "provider")
            ELSE LET result == AnalyzeResponseText(outcome.text)
                 IN IF result.kind = "raise"
                    THEN InspectFail([sent EXCEPT !.analysis = result],
                                     result.exc, "parse")
                    ELSE [sent EXCEPT !.analysis = result, !.pc = "persist"]
    /\ UNCHANGED <<tempFiles, permFiles, bookings, bookingImages, inspections,
                   ai_service, apiKey, nextUuid, up, pz,
                   ann, reloc, cc,
                   cars, carReq, cl, bkReq, dr>>

\* Lines 356-389: a fresh inspection id, the total cost, create_inspection,
\* update_booking and the response.
PersistAndRespond(commit) ==
    /\ insp.pc = "persist"
    /\ LET inspection_id == nextUuid
           damage_report == insp.analysis.value
           total_cost == TotalCost(damage_report)
           exc == create_inspection(InspectCallArgs, commit)
           r == [insp EXCEPT !.inspection_id = inspection_id,
                             !.total_cost = total_cost,
                             !.call_args = InspectCallArgs,
                             !.commit = commit]
       IN /\ nextUuid' = nextUuid + 1
          /\ IF exc = None
             THEN /\ inspections' = inspections \cup
                        {[id |-> inspection_id,
                          damage_report |-> damage_report,
                          total_damage_cost |-> total_cost]}
                  /\ bookings' = update_booking(bookings, insp.booking_id, inspection_id)
                  /\ insp' = [r EXCEPT
                                !.pc = "done", !.status = 200,
                                !.response = [inspection_id |-> inspection_id,
                                              report |-> damage_report,
                                              before |-> insp.before_paths,
                                              after |-> insp.after_paths]]
             ELSE /\ inspections' = inspections
                  /\ bookings' = bookings
                  /\ insp' = InspectFail(r, exc, "persist")
    /\ UNCHANGED <<tempFiles, permFiles, bookingImages,
                   ai_service, apiKey, up, pz, ann, reloc, cc,
                   cars, carReq, cl, bkReq, dr>>

InspectBeginAny ==
    \E b \in BookingIds :
        \E images \in get_booking_images(bookingImages, b) : InspectBegin(b, images)

AnalyzeDamageAny == \E o \in ProviderOutcomes : AnalyzeDamage(o)

PersistAndRespondAny == \E c \in IoOutcomes : PersistAndRespond(c)

\* The server before the request: booking 1 with n BEFORE and m AFTER
\* images uploaded in two requests, in either order; the image files are
\* all on disk or the last AFTER file was lost; the booking may already
\* carry an inspection id set through PUT /bookings; the AI client may
\* already have been constructed by an earlier request.
InitInspect ==
    /\ \E n \in 0..MaxImages, m \in 0..MaxImages,
          beforeFirst \in BOOLEAN, lost \in BOOLEAN,
          firstClock \in Clocks, secondClock \in Clocks :
         LET b == UploadedPaths(IF beforeFirst THEN 1 ELSE 2, "before",
                                [i \in 1..n |-> ".jpg"])
             a == UploadedPaths(IF beforeFirst THEN 2 ELSE 1, "after",
                                [i \in 1..m |-> ".jpg"])
             first == IF beforeFirst THEN b ELSE a
             second == IF beforeFirst THEN a ELSE b
             firstType == IF beforeFirst THEN "before" ELSE "after"
             secondType == IF beforeFirst THEN "after" ELSE "before"
         IN /\ bookingImages =
                  create_multiple_booking_images(
                      create_multiple_booking_images(<<>>, 1, first, firstType, <<>>,
                                                     firstClock),
                      1, second, secondType, <<>>, secondClock)
            /\ permFiles = (Range(a) \cup Range(b))
                              \ (IF lost /\ m > 0 THEN {a[m]} ELSE {})
            /\ (lost => m > 0)
    /\ tempFiles = {}
    /\ bookings \in {[b \in {1} |-> [car_id |-> 1, inspection_id |-> i]] : i \in {NoId, 1}}
    /\ inspections = {}
    /\ apiKey \in BOOLEAN
    /\ ai_service \in (IF apiKey THEN {None, "instance"} ELSE {None})
    /\ nextUuid = 3
    /\ up = UpIdle
    /\ insp = InspStart
    /\ pz = PzIdle
    /\ ann = AnnIdle
    /\ reloc = RelocIdle
    /\ cc = CcIdle
    /\ cars = <<>>
    /\ carReq = CarReqIdle
    /\ cl = ClIdle
    /\ bkReq = BkReqIdle
    /\ dr = DrIdle

NextInspect ==
    \/ InspectBeginAny
    \/ GetAiService
    \/ AnalyzeDamageAny
    \/ PersistAndRespondAny

SpecInspect == InitInspect /\ [][NextInspect]_vars

----------------------------------------------------------------------------
(* Claims about the upload request (SpecUpload) *)

UploadEnded == up.pc = "done"

\* An image that validate_image_file has to reject, stated on the input.
BadImage(file) ==
    \/ file.filename = ""
    \/ file.ext \notin {".jpg", ".jpeg", ".png", ".webp"}
    \/ file.content_type \notin {"image/jpeg", "image/jpg", "image/png", "image/webp"}

\* C1: once an upload request has ended, with whatever outcome, none of the
\* transient paths that request wrote exists on disk.
C1_NoTransientFileAfterRequest ==
    UploadEnded => up.written \cap tempFiles = {}

\* C2: when staging fails at the k-th image, k > 1, the files staged for
\* images 1..k-1 are gone by the time the request has returned its error.
C2_PartialStagingCleaned ==
    (UploadEnded /\ up.failed = "stage" /\ Len(up.temp_paths) >= 1)
        => Range(up.temp_paths) \cap tempFiles = {}

\* C10: intake is all-or-nothing.  A request with an image that fails
\* validation ends as an error and has created no transient file, no
\* permanent file and no BookingImage row.
C10_ValidationAllOrNothing ==
    (UploadEnded /\ \E i \in 1..Len(up.images) : BadImage(up.images[i]))
        => /\ up.status >= 400
           /\ up.written = {}
           /\ up.temp_paths = <<>>
           /\ up.permanent_paths = <<>>
           /\ up.created = 0
           /\ tempFiles = up.snap.temp
           /\ permFiles = up.snap.perm
           /\ bookingImages = up.snap.rows

\* C10 witness: a two-image request on a stored booking whose first image
\* is acceptable and whose second is not, rejected by the validation loop.
C10_Witness ==
    /\ UploadEnded
    /\ up.failed = "validate"
    /\ Len(up.images) = 2
    /\ ~BadImage(up.images[1])
    /\ BadImage(up.images[2])

----------------------------------------------------------------------------
(* Claims about the report parser (SpecParse) *)

Parsed == pz.pc = "parsed"

\* The cleaned text is no single JSON value: json.loads raises JSONDecodeError
DecodeFails(text) ==
    ~(Len(CleanText(text)) = 1 /\ CleanText(text)[1] \in DocTokens)

\* The sentinel report: no damages, a total of 0, the error-marker summary
\* and the failure reason in the auxiliary field "error".
IsSentinel(report) ==
    /\ report.type = "dict"
    /\ report.keys = {"new_damage", "total_estimated_cost_usd", "summary", "error"}
    /\ report.nd_type = "list"
    /\ report.new_damage = <<>>
    /\ report.total = 0
    /\ report.summary = "Error parsing AI response"
    /\ report.error # ""

\* C5: a text that fails JSON decoding after white space and fences are
\* stripped makes the parser return the sentinel report, and analyze_damage
\* returns that report instead of raising.
C5_DecodeFailureGivesSentinel ==
    (Parsed /\ DecodeFails(pz.text))
        => /\ pz.parsed.kind = "return"
           /\ IsSentinel(pz.parsed.value)
           /\ pz.analysis.kind = "return"
           /\ pz.analysis.value = pz.parsed.value

\* C5 witness: prose inside a json fence was parsed into the sentinel.
C5_Witness ==
    /\ Parsed
    /\ pz.text = <<"FJ", "G", "F">>
    /\ DecodeFails(pz.text)
    /\ IsSentinel(pz.analysis.value)

\* C6: the parser never raises; a text that decodes to a value without a
\* new_damage key, or to a value that is no object, gives the sentinel
\* report like a decode failure does.
C6_ParserNeverRaises ==
    Parsed
        => /\ pz.parsed.kind = "return"
           /\ \A d \in DocTokens :
                (/\ CleanText(pz.text) = <<d>>
                 /\ (Decode(d).type # "dict" \/ "new_damage" \notin Decode(d).keys))
                    => IsSentinel(pz.parsed.value)

----------------------------------------------------------------------------
(* Claims about the inspection request (SpecInspect) *)

InspectEnded == insp.pc = "done"

\* BEFORE / AFTER image paths of the request's booking, as stored
StoredPaths(image_type) ==
    PathsOfType(SelectRows(bookingImages, insp.booking_id), image_type)

\* The provider returned a text that is a well-formed report (an object
\* whose new_damage is a list), every image file was readable, the client
\* was available and the database commit would have succeeded.
GoodInspection ==
    /\ Len(StoredPaths("before")) >= 1
    /\ Len(StoredPaths("after")) >= 1
    /\ insp.provider = "text"
    /\ \E d \in {"D_FULL", "D_EMPTY", "D_NOTOTAL"} : CleanText(insp.text) = <<d>>
    /\ insp.commit = "ok"

\* C3: an inspection of a booking with N >= 1 BEFORE and M >= 1 AFTER
\* images for which the provider returned text ends in Done with a success
\* response that lists N before paths and M after paths.
C3_ValidInspectionSucceeds ==
    (InspectEnded /\ GoodInspection)
        => /\ insp.status = 200
           /\ Len(insp.response.before) = Len(StoredPaths("before"))
           /\ Len(insp.response.after) = Len(StoredPaths("after"))

\* C4: the inspection id returned by such a request retrieves, through
\* get_inspection, a stored record whose total_damage_cost is the
\* total_estimated_cost_usd of the report in the response.
C4_RecordRetrievableWithMatchingCost ==
    (InspectEnded /\ GoodInspection)
        => /\ insp.response.inspection_id # NoId
           /\ \E r \in get_inspection(inspections, insp.response.inspection_id) :
                r.total_damage_cost = insp.response.report.total

C8_ContentOrder ==
    insp.calls >= 1 =>
        LET before == insp.before_paths
            after == insp.after_paths
            n == Len(before)
            m == Len(after)
            c == insp.content
        IN /\ Len(c) = 1 + 2 * n + 2 * m
           /\ c[1].kind = "prompt"
           /\ \A i \in 1..n :
                /\ c[2 * i].kind = "label"
                /\ c[2 * i].type = "BEFORE"
                /\ c[2 * i].index = i
                /\ c[2 * i + 1].kind = "image"
                /\ c[2 * i + 1].path = before[i]
           /\ \A j \in 1..m :
                /\ c[2 * n + 2 * j].kind = "label"
                /\ c[2 * n + 2 * j].type = "AFTER"
                /\ c[2 * n + 2 * j].index = j
                /\ c[2 * n + 2 * j + 1].kind = "image"
                /\ c[2 * n + 2 * j + 1].path = after[j]

\* C8 witness: content was sent for a booking with two BEFORE and two
\* AFTER images.
C8_Witness ==
    /\ insp.calls = 1
    /\ Len(StoredPaths("before")) = 2
    /\ Len(StoredPaths("after")) = 2
    /\ Len(insp.content) = 9

\* C9: when the provider call raises or gives no usable text, the request
\* ends as a 5xx after that one call, no Inspection row is created and the
\* booking keeps its inspection_id.
C9_ProviderFailureIsServerError ==
    (InspectEnded /\ insp.provider \in {"raise", "no_text"})
        => /\ insp.status >= 500
           /\ insp.status <= 599
           /\ insp.calls = 1
           /\ inspections = insp.snap.inspections
           /\ bookings[insp.booking_id].inspection_id = insp.snap.inspection_id

\* C9 witness: a response without text ended the request with a 500.
C9_Witness ==
    /\ InspectEnded
    /\ insp.provider = "no_text"
    /\ insp.failed = "provider"
    /\ insp.status = 500

----------------------------------------------------------------------------
(* Claims about the status codes of the two handlers *)

\* C11: an upload that fails image validation is answered with a 4xx
\* status, an upload that fails while staging, creating the directory,
\* copying or recording is answered with a 5xx status; a validation failure
\* is never a 5xx.
C11_ValidationIsClientError ==
    UploadEnded
        => /\ up.failed = "validate" => (up.status >= 400 /\ up.status <= 499)
           /\ up.failed \in {"stage", "mkdir", "copy", "record"}
                 => (up.status >= 500 /\ up.status <= 599)

\* C12: an image whose written size exceeds 10 MiB is never copied to
\* permanent storage nor recorded as a BookingImage, and its request is
\* never answered with the 201 of a successful upload.
C12_OversizeNeverStored ==
    \A i \in 1..Len(up.images) :
        validate_file_size(up.images[i].size) # "ok"
            => /\ Len(up.permanent_paths) < i
               /\ up.created = 0
               /\ up.status # 201

\* C13: POST /inspect answers 404 when the booking does not exist and 400
\* when the booking has no BEFORE images or no AFTER images.
C13_InspectPreconditionStatus ==
    InspectEnded
        => /\ insp.failed = "lookup" => insp.status = 404
           /\ insp.failed = "images" => insp.status = 400

----------------------------------------------------------------------------
(* utils/image_utils.py : ImageProcessor.create_bounded_images and
   ImageProcessor.draw_bounding_boxes *)

BoxKeys == {"x_min_pct", "y_min_pct", "x_max_pct", "y_max_pct"}

\* A bounding_box object: the keys it has and their values, in hundredths
\* (100 stands for 1.0)
BoundingBox(keys, x_min, y_min, x_max, y_max) ==
    [keys |-> keys, x_min_pct |-> x_min, y_min_pct |-> y_min,
     x_max_pct |-> x_max, y_max_pct |-> y_max]

\* damage.get("bounding_box", {}) of an item without that key
EmptyBox == BoundingBox({}, 0, 0, 0, 0)

\* The boxes of the model: a proper one, one with x_max = x_min, one that
\* reaches beyond the right edge, and none at all.
GoodBox == BoundingBox(BoxKeys, 10, 10, 50, 50)

FlatBox == BoundingBox(BoxKeys, 50, 10, 50, 50)

WideBox == BoundingBox(BoxKeys, 10, 10, 150, 50)

\* One element of new_damage as the annotator reads it: whether it has an
\* image_index, that index, and its bounding box.
DamageDict(has_index, image_index, bounding_box) ==
    [has_index |-> has_index, image_index |-> image_index,
     bounding_box |-> bounding_box]

DamageDicts ==
    {DamageDict(TRUE, i, b) : i \in (-1)..(MaxImages + 1), b \in {GoodBox, FlatBox}}
        \cup {DamageDict(FALSE, 0, b) : b \in {GoodBox, FlatBox}}
        \cup {DamageDict(TRUE, i, b) : i \in 1..2, b \in {WideBox, EmptyBox}}

\* bbox.get(key, 0.0)
BoxGet(bbox, key) == IF key \in bbox.keys THEN bbox[key] ELSE 0

ValidBoundingBoxOrFlat(bbox) ==
    LET x_min_pct == BoxGet(bbox, "x_min_pct")
        y_min_pct == BoxGet(bbox, "y_min_pct")
        x_max_pct == BoxGet(bbox, "x_max_pct")
        y_max_pct == BoxGet(bbox, "y_max_pct")
    IN /\ 0 <= x_min_pct /\ x_min_pct <= x_max_pct /\ x_max_pct <= 100
       /\ 0 <= y_min_pct /\ y_min_pct <= y_max_pct /\ y_max_pct <= 100

\* Lines 75-81: 0 <= x_min_pct < x_max_pct <= 1.0 and
\* 0 <= y_min_pct < y_max_pct <= 1.0
ValidBoundingBox(bbox) ==
    LET x_min_pct == BoxGet(bbox, "x_min_pct")
        y_min_pct == BoxGet(bbox, "y_min_pct")
        x_max_pct == BoxGet(bbox, "x_max_pct")
        y_max_pct == BoxGet(bbox, "y_max_pct")
    IN /\ 0 <= x_min_pct /\ x_min_pct < x_max_pct /\ x_max_pct <= 100
       /\ 0 <= y_min_pct /\ y_min_pct < y_max_pct /\ y_max_pct <= 100

\* Line 50: [d for d in damages if d.get("image_index") == image_index],
\* as the positions of those items in damages (from position p on)
RECURSIVE ImageDamages(_, _, _)
ImageDamages(damages, image_index, p) ==
    IF p > Len(damages) THEN <<>>
    ELSE (IF damages[p].has_index /\ damages[p].image_index = image_index
          THEN <<p>> ELSE <<>>)
         \o ImageDamages(damages, image_index, p + 1)

\* Lines 71-130: for idx, damage in enumerate(image_damages, 1): an item
\* with an invalid box is skipped, the others get a rectangle and the label
\* numbered idx.
RECURSIVE DrawBoxes(_, _, _)
DrawBoxes(damages, image_damages, idx) ==
    IF idx > Len(image_damages) THEN <<>>
    ELSE (IF ValidBoundingBox(damages[image_damages[idx]].bounding_box)
          THEN <<[label |-> idx, damage |-> image_damages[idx]]>>
          ELSE <<>>)
         \o DrawBoxes(damages, image_damages, idx + 1)

\* ImageProcessor.draw_bounding_boxes on an image that opens and draws
\* without error: what is drawn on it, in drawing order
draw_bounding_boxes(damages, image_index) ==
    DrawBoxes(damages, ImageDamages(damages, image_index, 1), 1)

\* damage.get("image_index", 0)
GetImageIndex(damage) == IF damage.has_index THEN damage.image_index ELSE 0

IndexInRangeNoLowerBound(img_idx, n) == img_idx <= n

\* Line 168: 1 <= img_idx <= len(after_image_paths)
IndexInRange(img_idx, n) == 1 <= img_idx /\ img_idx <= n

\* Lines 165-169
ImagesWithDamages(damages, after_image_paths) ==
    {i \in {GetImageIndex(damages[p]) : p \in 1..Len(damages)} :
        IndexInRange(i, Len(after_image_paths))}

\* sorted(images_with_damages)
RECURSIVE Sorted(_)
Sorted(S) ==
    IF S = {} THEN <<>>
    ELSE LET least == CHOOSE x \in S : \A y \in S : x <= y
         IN <<least>> \o Sorted(S \ {least})

\* The position (1-based, 0 for IndexError) that list[k] reads in a list of
\* n elements; a negative k counts from the end.
ListPos(n, k) ==
    IF k >= 0 /\ k < n THEN k + 1
    ELSE IF k < 0 /\ -k <= n THEN n + k + 1
    ELSE 0

\* A damage report as create_bounded_images reads it
AnnotatorReport(keys, new_damage) == [keys |-> keys, new_damage |-> new_damage]

\* damage_report.get("new_damage", [])
GetNewDamage(damage_report) ==
    IF "new_damage" \in damage_report.keys THEN damage_report.new_damage ELSE <<>>

AnnotatorReports ==
    {AnnotatorReport({"new_damage", "summary"}, d) : d \in SeqsUpTo(DamageDicts, MaxDamages)}
        \cup {AnnotatorReport({"summary"}, <<>>)}

AnnStart(after_image_paths, damage_report, output_dir) ==
    [pc |-> "call", after_image_paths |-> after_image_paths,
     damage_report |-> damage_report, output_dir |-> output_dir,
     damages |-> <<>>, queue |-> <<>>, bounded_paths |-> <<>>,
     rendered |-> {}, failed |-> {}]

\* Lines 157-171: no damages, nothing to do; otherwise the indices to
\* render, in ascending order.
CreateBoundedImages ==
    /\ ann.pc = "call"
    /\ LET damages == GetNewDamage(ann.damage_report)
           queue == Sorted(ImagesWithDamages(damages, ann.after_image_paths))
       IN ann' = [ann EXCEPT !.damages = damages,
                             !.queue = IF damages = <<>> THEN <<>> ELSE queue,
                             !.pc = IF damages = <<>> \/ queue = <<>>
                                    THEN "returned" ELSE "render"]
    /\ UNCHANGED <<tempFiles, permFiles, bookings, bookingImages, inspections,
                   ai_service, apiKey, nextUuid, up, insp, pz, reloc, cc,
                   cars, carReq, cl, bkReq, dr>>

OnRenderErrorStop(rest) == <<>>

\* Lines 212-215: `except Exception` logs and continues with the indices
\* that are left
OnRenderError(rest) == rest

\* What can happen while one image is rendered:
\*   "ok"         the image is opened, drawn on and saved
\*   "open_fail"  Image.open raises (unreadable source)
\*   "draw_fail"  a drawing call raises
\*   "save_fail"  bounded_img.save raises before anything is written
RenderOutcomes == {"ok", "open_fail", "draw_fail", "save_fail"}

\* Lines 174-215: one iteration of the loop over sorted(images_with_damages).
\* The saved file is reported by its path relative to "uploads", which
\* raises ValueError for an output_dir that is not below "uploads".
RenderImage(outcome) ==
    /\ ann.pc = "render"
    /\ ann.queue # <<>>
    /\ LET img_idx == Head(ann.queue)
           pos == ListPos(Len(ann.after_image_paths), img_idx - 1)
           output_path == PermPath(ann.output_dir.dir, "bounded",
                                   ToString(img_idx), ".jpg")
           saved == pos # 0 /\ outcome = "ok"
           appended == saved /\ ann.output_dir.under_uploads
           rest == IF appended THEN Tail(ann.queue)
                   ELSE OnRenderError(Tail(ann.queue))
       IN /\ permFiles' = IF saved THEN permFiles \cup {output_path} ELSE permFiles
          /\ ann' = [ann EXCEPT
                       !.queue = rest,
                       !.pc = IF rest = <<>> THEN "returned" ELSE "render",
                       !.rendered =
                           IF saved
                           THEN @ \cup {[image_index |-> img_idx,
                                         source |-> pos,
                                         drawn |-> draw_bounding_boxes(ann.damages, img_idx)]}
                           ELSE @,
                       !.bounded_paths =
                           IF appended THEN Append(@, output_path) ELSE @,
                       !.failed = IF appended THEN @ ELSE @ \cup {img_idx}]
    /\ UNCHANGED <<tempFiles, bookings, bookingImages, inspections,
                   ai_service, apiKey, nextUuid, up, insp, pz, reloc, cc,
                   cars, carReq, cl, bkReq, dr>>

RenderImageAny == \E o \in RenderOutcomes : RenderImage(o)

\* A call with m AFTER images of an earlier upload (directory 1), a report
\* and an output directory below "uploads" or elsewhere.
InitAnnotate ==
    /\ \E m \in 0..MaxImages, report \in AnnotatorReports, under \in BOOLEAN :
         LET after == UploadedPaths(1, "after", [i \in 1..m |-> ".jpg"])
         IN /\ ann = AnnStart(after, report, [dir |-> 1, under_uploads |-> under])
            /\ permFiles = Range(after)
    /\ tempFiles = {}
    /\ bookings = [b \in {1} |-> [car_id |-> 1, inspection_id |-> NoId]]
    /\ bookingImages = <<>>
    /\ inspections = {}
    /\ ai_service = None
    /\ apiKey = TRUE
    /\ nextUuid = 2
    /\ up = UpIdle
    /\ insp = InspIdle
    /\ pz = PzIdle
    /\ reloc = RelocIdle
    /\ cc = CcIdle
    /\ cars = <<>>
    /\ carReq = CarReqIdle
    /\ cl = ClIdle
    /\ bkReq = BkReqIdle
    /\ dr = DrIdle

NextAnnotate ==
    \/ CreateBoundedImages
    \/ RenderImageAny

SpecAnnotate == InitAnnotate /\ [][NextAnnotate]_vars

----------------------------------------------------------------------------
(* Claims about the damage annotator (SpecAnnotate) *)

AnnReturned == ann.pc = "returned"

\* The new_damage list of the report under annotation
ReportItems == ann.damage_report.new_damage

\* The item names AFTER image i
Refers(item, i) == item.has_index /\ item.image_index = i

\* 0 <= x_min < x_max <= 1 and 0 <= y_min < y_max <= 1, stated on the item
BoxWellFormed(box) ==
    /\ box.keys = {"x_min_pct", "y_min_pct", "x_max_pct", "y_max_pct"}
    /\ 0 <= box.x_min_pct /\ box.x_min_pct < box.x_max_pct /\ box.x_max_pct <= 100
    /\ 0 <= box.y_min_pct /\ box.y_min_pct < box.y_max_pct /\ box.y_max_pct <= 100

\* <output_dir>/bounded_<i>.jpg
BoundedName(i) == PermPath(ann.output_dir.dir, "bounded", ToString(i), ".jpg")

\* AFTER image i has an item that names it and has a valid box
HasValidItem(i) ==
    \E p \in 1..Len(ReportItems) :
        Refers(ReportItems[p], i) /\ BoxWellFormed(ReportItems[p].bounding_box)

\* C14: when no rendering failed, the result holds bounded_<i>.jpg exactly
\* once for every index i in 1..M that has an item with image_index = i and
\* a valid bounding box, and not at all for the other indices.
C14_OneBoundedImagePerValidIndex ==
    (AnnReturned /\ ann.failed = {})
        => \A i \in 1..Len(ann.after_image_paths) :
              Cardinality({k \in 1..Len(ann.bounded_paths) :
                              ann.bounded_paths[k] = BoundedName(i)})
                 = IF HasValidItem(i) THEN 1 ELSE 0

\* C15: on every image that was drawn on, the items drawn are exactly the
\* items of that image whose bounding box is valid, in report order: an
\* item with an invalid box is left out and the valid ones are all drawn.
C15_InvalidBoxSkippedOthersDrawn ==
    \A r \in ann.rendered :
        /\ {r.drawn[k].damage : k \in 1..Len(r.drawn)}
             = {p \in 1..Len(ReportItems) :
                    /\ Refers(ReportItems[p], r.image_index)
                    /\ BoxWellFormed(ReportItems[p].bounding_box)}
        /\ \A k, l \in 1..Len(r.drawn) :
              k < l => r.drawn[k].damage < r.drawn[l].damage

\* C15 witness: image 1 carries an item with x_max = x_min followed by an
\* item with a valid box; the image was saved with only the second drawn.
C15_Witness ==
    /\ AnnReturned
    /\ ReportItems = <<DamageDict(TRUE, 1, FlatBox), DamageDict(TRUE, 1, GoodBox)>>
    /\ BoundedName(1) \in Range(ann.bounded_paths)
    /\ \E r \in ann.rendered :
          r.image_index = 1 /\ r.drawn = <<[label |-> 2, damage |-> 2]>>

\* The item's image_index is that of an existing AFTER image
Resolves(item) ==
    \E i \in 1..Len(ann.after_image_paths) : Refers(item, i)

\* C16: every bounded output and every drawn-on image belongs to an index
\* in 1..M that some item names, is rendered from the AFTER image of that
\* index and shows only items that name it; so an item whose image_index
\* resolves to no AFTER image is drawn nowhere and yields no output, and,
\* when no rendering failed, every AFTER image an item names has its output.
C16_UnresolvedIndexIgnored ==
    /\ \A k \in 1..Len(ann.bounded_paths) :
          \E i \in 1..Len(ann.after_image_paths) :
              /\ ann.bounded_paths[k] = BoundedName(i)
              /\ \E p \in 1..Len(ReportItems) : Refers(ReportItems[p], i)
    /\ \A r \in ann.rendered :
          /\ r.image_index \in 1..Len(ann.after_image_paths)
          /\ r.source = r.image_index
          /\ \A k \in 1..Len(r.drawn) :
                Refers(ReportItems[r.drawn[k].damage], r.image_index)
    /\ (AnnReturned /\ ann.failed = {})
          => \A p \in 1..Len(ReportItems) :
                Resolves(ReportItems[p])
                   => BoundedName(ReportItems[p].image_index)
                         \in Range(ann.bounded_paths)

\* C16 witness: a report with an item of image_index 0 and an item of an
\* existing image was annotated; the second item's image is in the result.
C16_Witness ==
    /\ AnnReturned
    /\ Len(ann.after_image_paths) >= 1
    /\ \E p, q \in 1..Len(ReportItems) :
          /\ ReportItems[p].has_index
          /\ ReportItems[p].image_index = 0
          /\ Resolves(ReportItems[q])
          /\ BoundedName(ReportItems[q].image_index) \in Range(ann.bounded_paths)

\* C17: create_bounded_images returns even when renderings failed; an index
\* whose rendering failed is not in the result, every other index with a
\* valid item is, and the result is in ascending index order.
C17_RenderFailureSkipsOnlyThatImage ==
    AnnReturned
        => /\ \A i \in ann.failed : BoundedName(i) \notin Range(ann.bounded_paths)
           /\ \A i \in 1..Len(ann.after_image_paths) :
                 (HasValidItem(i) /\ i \notin ann.failed)
                    => BoundedName(i) \in Range(ann.bounded_paths)
           /\ \A k, l \in 1..Len(ann.bounded_paths) :
                 k < l => \E i, j \in 1..Len(ann.after_image_paths) :
                             /\ i < j
                             /\ ann.bounded_paths[k] = BoundedName(i)
                             /\ ann.bounded_paths[l] = BoundedName(j)

\* C17 witness: images 1 and 2 both had a valid item, rendering image 1
\* failed, and the call returned the bounded image of image 2 alone.
C17_Witness ==
    /\ AnnReturned
    /\ HasValidItem(1)
    /\ HasValidItem(2)
    /\ ann.failed = {1}
    /\ ann.bounded_paths = <<BoundedName(2)>>

----------------------------------------------------------------------------
(* utils/file_handler.py : FileHandler.copy_multiple_to_permanent_storage *)

\* A path string is a sequence of parts: directory names, one file name and
\* the separators between them.
PathSep(c) == [kind |-> "sep", text |-> c, num |-> 0, ext |-> ""]

\* datetime.now().strftime("%Y-%m-%d")
DateDir == [kind |-> "dir", text |-> "YYYY-MM-DD", num |-> 0, ext |-> ""]

\* the directory named after the generated inspection id
IdDir(inspection_id) ==
    [kind |-> "dir", text |-> "uuid", num |-> inspection_id, ext |-> ""]

\* f"before_{idx}{ext}" / f"after_{idx}{ext}"
FileName(prefix, idx, ext) ==
    [kind |-> "file", text |-> prefix, num |-> idx, ext |-> ext]

\* The separator str(path) puts between the parts of a path on the host
HostSeparators == {"/", "\\"}

\* str(perm_path.relative_to(self.storage_dir)): the parts below the storage
\* root, joined by the host's separator
RECURSIVE JoinParts(_, _)
JoinParts(parts, sep) ==
    IF Len(parts) <= 1 THEN parts
    ELSE <<Head(parts), PathSep(sep)>> \o JoinParts(Tail(parts), sep)

KeepSeparators(path) == path

\* .replace('\\', '/')
ReplaceBackslash(path) ==
    [k \in 1..Len(path) |->
        IF path[k].kind = "sep" /\ path[k].text = "\\" THEN PathSep("/")
        ELSE path[k]]

\* Lines 225-230 / 236-241: the returned path of the idx-th file
RelativePath(inspection_id, prefix, idx, ext, sep) ==
    ReplaceBackslash(
        JoinParts(<<DateDir, IdDir(inspection_id), FileName(prefix, idx, ext)>>, sep))

RelocStart(temp_before_paths, temp_after_paths, sep) ==
    [pc |-> "call", temp_before_paths |-> temp_before_paths,
     temp_after_paths |-> temp_after_paths, sep |-> sep,
     inspection_id |-> NoId, before_paths |-> <<>>, after_paths |-> <<>>,
     error |-> None]

\* Lines 211-220: a fresh inspection id and its directory; with nothing to
\* copy the empty lists are returned at once.  A failing mkdir leaves
\* through `except Exception` as Exception("Failed to copy ...").
RelocMakeDir(outcome) ==
    /\ reloc.pc = "call"
    /\ nextUuid' = nextUuid + 1
    /\ reloc' =
          IF outcome # "ok"
          THEN [reloc EXCEPT !.pc = "raised", !.error = "Exception"]
          ELSE [reloc EXCEPT
                   !.inspection_id = nextUuid,
                   !.pc = IF reloc.temp_before_paths = <<>>
                             /\ reloc.temp_after_paths = <<>>
                          THEN "returned" ELSE "copy"]
    /\ UNCHANGED <<tempFiles, permFiles, bookings, bookingImages, inspections,
                   ai_service, apiKey, up, insp, pz, ann, cc,
                   cars, carReq, cl, bkReq, dr>>

\* Lines 222-246: the next shutil.copy2, BEFORE files first; files copied
\* earlier stay where they are when a later copy raises.
RelocCopy(outcome) ==
    /\ reloc.pc = "copy"
    /\ LET n == Len(reloc.temp_before_paths)
           m == Len(reloc.temp_after_paths)
           inBefore == Len(reloc.before_paths) < n
           idx == IF inBefore THEN Len(reloc.before_paths) + 1
                  ELSE Len(reloc.after_paths) + 1
           prefix == IF inBefore THEN "before" ELSE "after"
           temp_path == IF inBefore THEN reloc.temp_before_paths[idx]
                        ELSE reloc.temp_after_paths[idx]
           ext == temp_path.ext
           perm_path == PermPath(reloc.inspection_id, prefix, ToString(idx), ext)
           relative_path == RelativePath(reloc.inspection_id, prefix, idx, ext,
                                         reloc.sep)
           last == IF inBefore THEN idx = n /\ m = 0 ELSE idx = m
       IN IF outcome = "ok" /\ temp_path \in tempFiles
          THEN /\ permFiles' = permFiles \cup {perm_path}
               /\ reloc' = [reloc EXCEPT
                              !.before_paths =
                                  IF inBefore THEN Append(@, relative_path) ELSE @,
                              !.after_paths =
                                  IF inBefore THEN @ ELSE Append(@, relative_path),
                              !.pc = IF last THEN "returned" ELSE "copy"]
          ELSE /\ permFiles' = permFiles
               /\ reloc' = [reloc EXCEPT !.pc = "raised", !.error = "Exception"]
    /\ UNCHANGED <<tempFiles, bookings, bookingImages, inspections,
                   ai_service, apiKey, nextUuid, up, insp, pz, ann, cc,
                   cars, carReq, cl, bkReq, dr>>

RelocMakeDirAny == \E o \in IoOutcomes : RelocMakeDir(o)

RelocCopyAny == \E o \in IoOutcomes : RelocCopy(o)

\* The transient handles save_temp_file returned for n files with the given
\* suffixes, the first of them named by uuid `first`
StagedPaths(first, exts) ==
    [i \in 1..Len(exts) |-> TempPath(first + i - 1, exts[i])]

\* A call with N BEFORE and M AFTER transient handles, on a host of either
\* path convention; the staged files all exist or the last one is gone.
InitRelocate ==
    /\ \E bexts \in SeqsUpTo({".jpg", ".png"}, MaxImages),
          aexts \in SeqsUpTo({".jpg", ".png"}, MaxImages),
          sep \in HostSeparators, lost \in BOOLEAN :
         LET before == StagedPaths(1, bexts)
             after == StagedPaths(Len(bexts) + 1, aexts)
             all == before \o after
         IN /\ reloc = RelocStart(before, after, sep)
            /\ lost => all # <<>>
            /\ tempFiles = Range(all) \ (IF lost THEN {all[Len(all)]} ELSE {})
            /\ nextUuid = Len(all) + 1
    /\ permFiles = {}
    /\ bookings = [b \in {1} |-> [car_id |-> 1, inspection_id |-> NoId]]
    /\ bookingImages = <<>>
    /\ inspections = {}
    /\ ai_service = None
    /\ apiKey = TRUE
    /\ up = UpIdle
    /\ insp = InspIdle
    /\ pz = PzIdle
    /\ ann = AnnIdle
    /\ cc = CcIdle
    /\ cars = <<>>
    /\ carReq = CarReqIdle
    /\ cl = ClIdle
    /\ bkReq = BkReqIdle
    /\ dr = DrIdle

NextRelocate ==
    \/ RelocMakeDirAny
    \/ RelocCopyAny

SpecRelocate == InitRelocate /\ [][NextRelocate]_vars

----------------------------------------------------------------------------
(* Claims about the storage relocator (SpecRelocate) *)

RelocReturned == reloc.pc = "returned"

\* <date>/<inspection_id>/<prefix>_<n><ext>, relative and with forward slashes
ExpectedPath(prefix, n, ext) ==
    << [kind |-> "dir", text |-> "YYYY-MM-DD", num |-> 0, ext |-> ""],
       [kind |-> "sep", text |-> "/", num |-> 0, ext |-> ""],
       [kind |-> "dir", text |-> "uuid", num |-> reloc.inspection_id, ext |-> ""],
       [kind |-> "sep", text |-> "/", num |-> 0, ext |-> ""],
       [kind |-> "file", text |-> prefix, num |-> n, ext |-> ext] >>

\* C18: a call that returns gives N before-paths and M after-paths in input
\* order; the n-th is <date>/<inspection_id>/before_<n><ext> (after_<n><ext>)
\* with the suffix of the n-th handle, is relative to the storage root,
\* contains no backslash, and its file exists in permanent storage.
C18_RelocatedPathsNamedInOrder ==
    RelocReturned
        => /\ reloc.inspection_id # NoId
           /\ Len(reloc.before_paths) = Len(reloc.temp_before_paths)
           /\ Len(reloc.after_paths) = Len(reloc.temp_after_paths)
           /\ \A n \in 1..Len(reloc.before_paths) :
                 /\ reloc.before_paths[n]
                      = ExpectedPath("before", n, reloc.temp_before_paths[n].ext)
                 /\ PermPath(reloc.inspection_id, "before", ToString(n),
                             reloc.temp_before_paths[n].ext) \in permFiles
           /\ \A n \in 1..Len(reloc.after_paths) :
                 /\ reloc.after_paths[n]
                      = ExpectedPath("after", n, reloc.temp_after_paths[n].ext)
                 /\ PermPath(reloc.inspection_id, "after", ToString(n),
                             reloc.temp_after_paths[n].ext) \in permFiles

\* C18 witness: two BEFORE and two AFTER handles of different suffixes were
\* relocated on a host that separates path parts with a backslash.
C18_Witness ==
    /\ RelocReturned
    /\ reloc.sep = "\\"
    /\ Len(reloc.before_paths) = 2
    /\ Len(reloc.after_paths) = 2
    /\ reloc.temp_before_paths[1].ext # reloc.temp_before_paths[2].ext

----------------------------------------------------------------------------
(* Two upload requests in flight together.  upload_booking_images is a
   coroutine: another request can run wherever this one waits, and with
   several server processes anywhere between two file operations, so every
   file operation is a step of its own here.  Both requests name booking 1,
   carry valid .jpg images and no angles. *)

Requests == {1, 2}

CcReqIdle ==
    [pc |-> "idle", image_type |-> "before", images |-> <<>>,
     temp_paths |-> <<>>, inspection_id |-> NoId, permanent_paths |-> <<>>,
     wrote |-> {}, removed |-> {}, status |-> 0, error |-> None]

\* Lines 997-1015 for a request that passes them
CcBegin(r, image_type, n) ==
    /\ cc[r].pc = "idle"
    /\ cc' = [cc EXCEPT ![r] =
                [CcReqIdle EXCEPT
                    !.pc = "stage",
                    !.image_type = image_type,
                    !.images = [i \in 1..n |->
                                  [filename |-> "car.jpg", ext |-> ".jpg",
                                   content_type |-> "image/jpeg", size |-> 1024]]]]
    /\ UNCHANGED <<tempFiles, permFiles, bookings, bookingImages, inspections,
                   ai_service, apiKey, nextUuid, up, insp, pz, ann, reloc,
                   cars, carReq, cl, bkReq, dr>>

\* Lines 1017-1021 with FileHandler.save_temp_file, for request r
CcSaveTempFile(r, outcome) ==
    /\ cc[r].pc = "stage"
    /\ Len(cc[r].temp_paths) < Len(cc[r].images)
    /\ LET img == cc[r].images[Len(cc[r].temp_paths) + 1]
           path == TempPath(nextUuid, img.ext)
       IN /\ nextUuid' = nextUuid + 1
          /\ tempFiles' = IF outcome = "open_fail" THEN tempFiles
                          ELSE tempFiles \cup {path}
          /\ cc' = [cc EXCEPT ![r] =
                      IF outcome = "ok"
                      THEN [@ EXCEPT
                              !.temp_paths = Append(@, path),
                              !.wrote = @ \cup {path},
                              !.pc = IF Len(cc[r].temp_paths) + 1 = Len(cc[r].images)
                                     THEN "mkdir" ELSE "stage"]
                      ELSE [@ EXCEPT
                              !.wrote = IF outcome = "write_fail"
                                        THEN @ \cup {path} ELSE @,
                              !.pc = "done",
                              !.error = "Exception",
                              !.status = UploadErrorStatus(
                                            [type |-> "Exception", status |-> 0])]]
    /\ UNCHANGED <<permFiles, bookings, bookingImages, inspections,
                   ai_service, apiKey, up, insp, pz, ann, reloc,
                   cars, carReq, cl, bkReq, dr>>

\* Lines 1025-1028 for request r
CcMakeInspectionDir(r, outcome) ==
    /\ cc[r].pc = "mkdir"
    /\ nextUuid' = nextUuid + 1
    /\ cc' = [cc EXCEPT ![r] =
                IF outcome = "ok"
                THEN [@ EXCEPT !.inspection_id = nextUuid, !.pc = "copy"]
                ELSE [@ EXCEPT !.error = "OSError", !.pc = "cleanup"]]
    /\ UNCHANGED <<tempFiles, permFiles, bookings, bookingImages, inspections,
                   ai_service, apiKey, up, insp, pz, ann, reloc,
                   cars, carReq, cl, bkReq, dr>>

\* Lines 1031-1036 for request r
CcCopyToPermanent(r, outcome) ==
    /\ cc[r].pc = "copy"
    /\ Len(cc[r].permanent_paths) < Len(cc[r].temp_paths)
    /\ LET idx == Len(cc[r].permanent_paths) + 1
           temp_path == cc[r].temp_paths[idx]
           perm_path == PermPath(cc[r].inspection_id, cc[r].image_type,
                                 AngleSuffix(<<>>, idx), temp_path.ext)
       IN IF outcome = "ok" /\ temp_path \in tempFiles
          THEN /\ permFiles' = permFiles \cup {perm_path}
               /\ cc' = [cc EXCEPT ![r] =
                           [@ EXCEPT
                              !.permanent_paths = Append(@, perm_path),
                              !.wrote = @ \cup {perm_path},
                              !.pc = IF idx = Len(cc[r].temp_paths)
                                     THEN "record" ELSE "copy"]]
          ELSE /\ permFiles' = permFiles
               /\ cc' = [cc EXCEPT ![r] =
                           [@ EXCEPT !.error = "OSError", !.pc = "cleanup"]]
    /\ UNCHANGED <<tempFiles, bookings, bookingImages, inspections,
                   ai_service, apiKey, nextUuid, up, insp, pz, ann, reloc,
                   cars, carReq, cl, bkReq, dr>>

\* Lines 1038-1047 for request r
CcCreateBookingImages(r, outcome, clock) ==
    /\ cc[r].pc = "record"
    /\ IF outcome = "ok"
       THEN /\ bookingImages' = create_multiple_booking_images(
                    bookingImages, 1, cc[r].permanent_paths,
                    cc[r].image_type, <<>>, clock)
            /\ cc' = [cc EXCEPT ![r] = [@ EXCEPT !.pc = "cleanup"]]
       ELSE /\ bookingImages' = bookingImages
            /\ cc' = [cc EXCEPT ![r] =
                        [@ EXCEPT !.error = "SQLAlchemyError", !.pc = "cleanup"]]
    /\ UNCHANGED <<tempFiles, permFiles, bookings, inspections,
                   ai_service, apiKey, nextUuid, up, insp, pz, ann, reloc,
                   cars, carReq, cl, bkReq, dr>>

\* Lines 1055-1063 for request r: every path of temp_paths that exists is
\* removed, then the response
CcCleanupAndRespond(r) ==
    /\ cc[r].pc = "cleanup"
    /\ tempFiles' = cleanup_temp_files(tempFiles, cc[r].temp_paths, {})
    /\ cc' = [cc EXCEPT ![r] =
                [@ EXCEPT
                    !.removed = Range(cc[r].temp_paths) \cap tempFiles,
                    !.pc = "done",
                    !.status = IF cc[r].error = None THEN 201
                               ELSE UploadErrorStatus(
                                       [type |-> cc[r].error, status |-> 0])]]
    /\ UNCHANGED <<permFiles, bookings, bookingImages, inspections,
                   ai_service, apiKey, nextUuid, up, insp, pz, ann, reloc,
                   cars, carReq, cl, bkReq, dr>>

CcBeginAny ==
    \E r \in Requests, t \in ImageTypes, n \in 1..MaxImages : CcBegin(r, t, n)

CcSaveTempFileAny ==
    \E r \in Requests, o \in SaveOutcomes : CcSaveTempFile(r, o)

CcMakeInspectionDirAny ==
    \E r \in Requests, o \in IoOutcomes : CcMakeInspectionDir(r, o)

CcCopyToPermanentAny ==
    \E r \in Requests, o \in IoOutcomes : CcCopyToPermanent(r, o)

CcCreateBookingImagesAny ==
    \E r \in Requests, o \in IoOutcomes, clock \in Clocks :
        CcCreateBookingImages(r, o, clock)

CcCleanupAndRespondAny == \E r \in Requests : CcCleanupAndRespond(r)

InitConcurrent ==
    /\ cc = [r \in Requests |-> CcReqIdle]
    /\ cars = <<>>
    /\ carReq = CarReqIdle
    /\ cl = ClIdle
    /\ bkReq = BkReqIdle
    /\ dr = DrIdle
    /\ tempFiles = {}
    /\ permFiles = {}
    /\ bookings = [b \in {1} |-> [car_id |-> 1, inspection_id |-> NoId]]
    /\ bookingImages = <<>>
    /\ inspections = {}
    /\ ai_service = None
    /\ apiKey = TRUE
    /\ nextUuid = 1
    /\ up = UpIdle
    /\ insp = InspIdle
    /\ pz = PzIdle
    /\ ann = AnnIdle
    /\ reloc = RelocIdle

NextConcurrent ==
    \/ CcBeginAny
    \/ CcSaveTempFileAny
    \/ CcMakeInspectionDirAny
    \/ CcCopyToPermanentAny
    \/ CcCreateBookingImagesAny
    \/ CcCleanupAndRespondAny

SpecConcurrent == InitConcurrent /\ [][NextConcurrent]_vars

----------------------------------------------------------------------------
(* Claims about requests in flight together (SpecConcurrent) *)

\* C19: two requests never get the same generated id, never write the same
\* transient or permanent path, and neither removes a path the other wrote;
\* the files a request has staged are still there until it removes them.
C19_RequestsNeverShareAPath ==
    \A r, s \in Requests :
        r # s
          => /\ (cc[r].inspection_id # NoId /\ cc[s].inspection_id # NoId)
                    => cc[r].inspection_id # cc[s].inspection_id
             /\ cc[r].wrote \cap cc[s].wrote = {}
             /\ cc[r].removed \cap cc[s].wrote = {}
             /\ cc[r].pc \in {"stage", "mkdir", "copy", "record", "cleanup"}
                    => Range(cc[r].temp_paths) \subseteq tempFiles

\* C19 witness: two requests with identical inputs (two images each, same
\* type) both succeeded, the second having staged its first image between
\* the two images of the first.
C19_Witness ==
    /\ \A r \in Requests :
          /\ cc[r].pc = "done"
          /\ cc[r].status = 201
          /\ cc[r].image_type = "before"
          /\ Len(cc[r].images) = 2
          /\ Len(cc[r].permanent_paths) = 2
    /\ cc[1].temp_paths[1].uuid < cc[2].temp_paths[1].uuid
    /\ cc[2].temp_paths[1].uuid < cc[1].temp_paths[2].uuid

----------------------------------------------------------------------------
(* Claims about the cleanup of transient files (SpecUpload) *)

\* C20: once the finally clause has run, cleanup_temp_files has returned and
\* the request is answered; every staged file whose removal did not fail is
\* gone, and the answer is the 201 of the upload or the 500 of the error
\* raised before the cleanup, whichever removals failed.
C20_CleanupFailureIsSwallowed ==
    up.cleanups >= 1
        => /\ up.pc = "done"
           /\ up.cleanups = 1
           /\ (Range(up.temp_paths) \ up.stuck) \cap tempFiles = {}
           /\ up.status = IF up.error = None THEN 201 ELSE 500
           /\ up.error = None => up.created = Len(up.images)

\* C20 witness: removing the first of two staged files failed; the second
\* was removed all the same and the upload was answered 201.
C20_Witness ==
    /\ up.cleanups = 1
    /\ Len(up.temp_paths) = 2
    /\ up.stuck = {up.temp_paths[1]}
    /\ up.temp_paths[2] \notin tempFiles
    /\ up.status = 201

----------------------------------------------------------------------------
(* POST /cars : create_car and PUT /cars/{car_id} : update_car.            *)
(* Both are plain `def` handlers, so the server runs them in worker        *)
(* threads, each with its own database session: the duplicate lookup and    *)
(* the commit of one request are separate steps that another request can    *)
(* come between.                                                            *)

CarRequests == {1, 2}

\* Values of the vin column ("" is accepted by the schema: Optional[str])
Vins == {None, "", "V1"}

\* Values of the license_plate column
Plates == {None, "P1"}

\* A field that an update payload does not carry (exclude_unset=True)
Unset == "unset"

\* Python truthiness of an Optional[str]: `if car.vin`
Truthy(s) == s # None /\ s # ""

CarRow(id, vin, license_plate) ==
    [id |-> id, vin |-> vin, license_plate |-> license_plate]

\* CarService.get_car: the id when the row exists
get_car(rows, car_id) == IF car_id \in 1..Len(rows) THEN car_id ELSE NoId

\* CarService.get_car_by_vin: .first() of the rows with that vin
get_car_by_vin(rows, vin) ==
    LET hits == {i \in 1..Len(rows) : rows[i].vin = vin}
    IN IF hits = {} THEN NoId ELSE CHOOSE i \in hits : \A j \in hits : i <= j

\* CarService.get_car_by_license_plate
get_car_by_license_plate(rows, license_plate) ==
    LET hits == {i \in 1..Len(rows) : rows[i].license_plate = license_plate}
    IN IF hits = {} THEN NoId ELSE CHOOSE i \in hits : \A j \in hits : i <= j

\* Column(String, unique=True, nullable=True) on vin and on license_plate:
\* the statement fails when another row holds the same non-NULL value
UniqueViolation(rows, id, vin, license_plate) ==
    \E i \in 1..Len(rows) :
        /\ rows[i].id # id
        /\ \/ vin # None /\ rows[i].vin = vin
           \/ license_plate # None /\ rows[i].license_plate = license_plate

\* `except HTTPException: raise` / `except Exception` -> 500
CarErrorStatus(exc) == IF exc.type = "HTTPException" THEN exc.status ELSE 500

\* What the update writes: only the fields the payload carries
UpdatedValue(old, new) == IF new = Unset THEN old ELSE new

CarPayloads ==
    {[pc |-> "check", kind |-> "create", car_id |-> NoId, vin |-> v,
      license_plate |-> p, status |-> 0, wrote |-> FALSE, sawDuplicate |-> FALSE] :
        v \in Vins, p \in Plates}
    \cup
    {[pc |-> "check", kind |-> "update", car_id |-> c, vin |-> v,
      license_plate |-> p, status |-> 0, wrote |-> FALSE, sawDuplicate |-> FALSE] :
        c \in {1, 2}, v \in Vins \cup {Unset}, p \in Plates \cup {Unset}}

CarDone(r, status, wrote) ==
    carReq' = [carReq EXCEPT ![r].pc = "done", ![r].status = status,
                             ![r].wrote = wrote]

\* create_car, lines 426-441: the two duplicate lookups
CreateCarCheck(r) ==
    /\ carReq[r].pc = "check"
    /\ carReq[r].kind = "create"
    /\ LET car == carReq[r]
       IN IF Truthy(car.vin) /\ get_car_by_vin(cars, car.vin) # NoId
          THEN CarDone(r, CarErrorStatus([type |-> "HTTPException", status |-> 400]), FALSE)
          ELSE IF /\ Truthy(car.license_plate)
                  /\ get_car_by_license_plate(cars, car.license_plate) # NoId
               THEN CarDone(r, CarErrorStatus([type |-> "HTTPException", status |-> 400]), FALSE)
               ELSE carReq' = [carReq EXCEPT ![r].pc = "commit"]
    /\ UNCHANGED <<tempFiles, permFiles, bookings, bookingImages, inspections,
                   ai_service, apiKey, nextUuid, up, insp, pz, ann, reloc, cc,
                   cars, cl, bkReq, dr>>

\* create_car, line 443: CarService.create_car (add, commit; rollback and
\* re-raise on any exception, which the handler answers with 500)
CreateCarCommit(r) ==
    /\ carReq[r].pc = "commit"
    /\ carReq[r].kind = "create"
    /\ LET car == carReq[r]
           id == Len(cars) + 1
       IN IF UniqueViolation(cars, id, car.vin, car.license_plate)
          THEN /\ cars' = cars
               /\ carReq' = [carReq EXCEPT ![r].pc = "done",
                      ![r].status = CarErrorStatus([type |-> "IntegrityError", status |-> 0]),
                      ![r].sawDuplicate = TRUE]
          ELSE /\ cars' = Append(cars, CarRow(id, car.vin, car.license_plate))
               /\ CarDone(r, 201, TRUE)
    /\ UNCHANGED <<tempFiles, permFiles, bookings, bookingImages, inspections,
                   ai_service, apiKey, nextUuid, up, insp, pz, ann, reloc, cc,
                   cl, bkReq, dr>>

\* update_car, lines 585-604: the row lookup and the two duplicate lookups
UpdateCarCheck(r) ==
    /\ carReq[r].pc = "check"
    /\ carReq[r].kind = "update"
    /\ LET car == carReq[r]
           existing == get_car(cars, car.car_id)
       IN IF existing = NoId
          THEN CarDone(r, CarErrorStatus([type |-> "HTTPException", status |-> 404]), FALSE)
          ELSE LET vinDup == IF car.vin # Unset /\ Truthy(car.vin)
                                   /\ car.vin # cars[existing].vin
                             THEN get_car_by_vin(cars, car.vin) ELSE NoId
                   plateDup == IF car.license_plate # Unset /\ Truthy(car.license_plate)
                                     /\ car.license_plate # cars[existing].license_plate
                               THEN get_car_by_license_plate(cars, car.license_plate)
                               ELSE NoId
               IN IF vinDup # NoId /\ vinDup # car.car_id
                  THEN CarDone(r, CarErrorStatus([type |-> "HTTPException", status |-> 400]), FALSE)
                  ELSE IF plateDup # NoId /\ plateDup # car.car_id
                       THEN CarDone(r, CarErrorStatus([type |-> "HTTPException", status |-> 400]), FALSE)
                       ELSE carReq' = [carReq EXCEPT ![r].pc = "commit"]
    /\ UNCHANGED <<tempFiles, permFiles, bookings, bookingImages, inspections,
                   ai_service, apiKey, nextUuid, up, insp, pz, ann, reloc, cc,
                   cars, cl, bkReq, dr>>

\* update_car, line 606: CarService.update_car (setattr of the supplied
\* fields, commit; rollback and re-raise on any exception)
UpdateCarCommit(r) ==
    /\ carReq[r].pc = "commit"
    /\ carReq[r].kind = "update"
    /\ LET car == carReq[r]
           id == car.car_id
           vin == UpdatedValue(cars[id].vin, car.vin)
           license_plate == UpdatedValue(cars[id].license_plate, car.license_plate)
       IN IF UniqueViolation(cars, id, vin, license_plate)
          THEN /\ cars' = cars
               /\ carReq' = [carReq EXCEPT ![r].pc = "done",
                      ![r].status = CarErrorStatus([type |-> "IntegrityError", status |-> 0]),
                      ![r].sawDuplicate = TRUE]
          ELSE /\ cars' = [cars EXCEPT ![id] = CarRow(id, vin, license_plate)]
               /\ CarDone(r, 200, TRUE)
    /\ UNCHANGED <<tempFiles, permFiles, bookings, bookingImages, inspections,
                   ai_service, apiKey, nextUuid, up, insp, pz, ann, reloc, cc,
                   cl, bkReq, dr>>

CreateCarCheckAny == \E r \in CarRequests : CreateCarCheck(r)

CreateCarCommitAny == \E r \in CarRequests : CreateCarCommit(r)

UpdateCarCheckAny == \E r \in CarRequests : UpdateCarCheck(r)

UpdateCarCommitAny == \E r \in CarRequests : UpdateCarCommit(r)

\* Tables the earlier requests can have left: every vin and every plate
\* held by at most one row
InitialCars ==
    { <<>>,
      <<CarRow(1, "V1", "P1")>>,
      <<CarRow(1, "V1", "P1"), CarRow(2, None, None)>> }

InitCars ==
    /\ tempFiles = {}
    /\ permFiles = {}
    /\ bookings = [b \in {1} |-> [car_id |-> 1, inspection_id |-> NoId]]
    /\ bookingImages = <<>>
    /\ inspections = {}
    /\ ai_service = None
    /\ apiKey = TRUE
    /\ nextUuid = 1
    /\ up = UpIdle
    /\ insp = InspIdle
    /\ pz = PzIdle
    /\ ann = AnnIdle
    /\ reloc = RelocIdle
    /\ cc = CcIdle
    /\ cars \in InitialCars
    /\ carReq \in [CarRequests -> CarPayloads]
    /\ cl = ClIdle
    /\ bkReq = BkReqIdle
    /\ dr = DrIdle

NextCars ==
    \/ CreateCarCheckAny
    \/ CreateCarCommitAny
    \/ UpdateCarCheckAny
    \/ UpdateCarCommitAny

SpecCars == InitCars /\ [][NextCars]_vars

----------------------------------------------------------------------------
(* Claims about the car handlers (SpecCars) *)

\* No two rows of a table share a non-NULL vin or a non-NULL plate
NoSharedVinOrPlate(rows) ==
    \A i, j \in 1..Len(rows) :
        i # j => /\ (rows[i].vin # None => rows[i].vin # rows[j].vin)
                 /\ (rows[i].license_plate # None =>
                        rows[i].license_plate # rows[j].license_plate)

\* C21: under every interleaving of create-car and update-car requests, a
\* request whose VIN or plate is held by another stored car is answered
\* 400, never 500, and writes nothing; no duplicate is ever stored.
C21_DuplicateCarRejectedAsClientError ==
    /\ NoSharedVinOrPlate(cars)
    /\ \A r \in CarRequests :
          carReq[r].pc = "done" =>
              /\ carReq[r].status # 500
              /\ (carReq[r].sawDuplicate => carReq[r].status = 400)
              /\ (carReq[r].status = 400 => ~carReq[r].wrote)

----------------------------------------------------------------------------
(* Further claims about the upload handler (SpecUpload) *)

\* C22: the cleanup of a request's transient files runs exactly once and
\* last: only when copying and record creation have completed or failed,
\* with no transient file of the request deleted before it, no storage or
\* record action after it, and once for every request that staged a file.
C22_CleanupOnceAndLast ==
    /\ up.cleanups <= 1
    /\ (up.cleanups = 0 => up.written \subseteq tempFiles)
    /\ (up.cleanups = 1 =>
          /\ up.pc = "done"
          /\ \/ up.error # None
             \/ /\ Len(up.permanent_paths) = Len(up.temp_paths)
                /\ up.created = Len(up.permanent_paths))
    /\ (UploadEnded /\ up.written # {} => up.cleanups = 1)

\* C26: a permanent copy, once made, stays: when the copy of the k-th file
\* fails, or record creation fails after all copies, every file already
\* copied into the request's directory (and every file stored before the
\* request) is still there when the error is returned, and the error is a
\* 5xx.
C26_PermanentCopiesKept ==
    /\ Range(up.permanent_paths) \subseteq permFiles
    /\ up.snap.perm \subseteq permFiles
    /\ (UploadEnded /\ up.failed \in {"copy", "record"} =>
          /\ up.status >= 500
          /\ up.cleanups = 1)

C26_Witness ==
    /\ UploadEnded
    /\ up.failed = "copy"
    /\ Len(up.temp_paths) = 2
    /\ Len(up.permanent_paths) = 1
    /\ up.permanent_paths[1] \in permFiles
    /\ up.permanent_paths[1] \notin up.snap.perm
    /\ up.status = 500

\* C28: the permanent paths one upload request writes and records are
\* pairwise distinct, also when the angles list names the same angle for
\* two images with the same extension: no image of the request overwrites
\* another.
C28_PermanentPathsDistinct ==
    \A i, j \in 1..Len(up.permanent_paths) :
        i # j => up.permanent_paths[i] # up.permanent_paths[j]

----------------------------------------------------------------------------
(* Further claims about the report parser (SpecParse) *)

\* The text with at most one leading fence marker (```json or ```) and at
\* most one trailing ``` removed, white space stripped around it
FenceStrippedOnce(text) ==
    LET s == Strip(text)
        opened == IF s # <<>> /\ Head(s) \in {"FJ", "F"} THEN Tail(s) ELSE s
        closed == IF opened # <<>> /\ opened[Len(opened)] = "F"
                  THEN SubSeq(opened, 1, Len(opened) - 1) ELSE opened
    IN Strip(closed)

\* C23: the parser removes at most one leading fence marker and at most one
\* trailing one: its result is the result of decoding the text with one
\* marker removed at each end, so a fenced JSON text parses like the bare
\* text and a text that still begins or ends with a fence after one
\* removal is not stripped again.
C23_FenceStrippedAtMostOnce ==
    Parsed =>
        LET loaded == json_loads(FenceStrippedOnce(pz.text))
        IN pz.parsed = IF loaded.ok THEN ValidateStructure(loaded.value)
                       ELSE ParseFallback

----------------------------------------------------------------------------
(* utils/image_utils.py : the rectangle, the colour and the label that      *)
(* ImageProcessor.draw_bounding_boxes draws for one damage item             *)

\* Lines 16-20
SEVERITY_COLORS ==
    [s \in {"minor", "moderate", "major"} |->
        CASE s = "minor" -> "#10B981"
          [] s = "moderate" -> "#F59E0B"
          [] s = "major" -> "#EF4444"]

\* Line 22
DEFAULT_COLOR == "#EF4444"

\* The value under the key "severity" of an item: whether the key is there,
\* the Python type of the value and, for a string, its text
Severity(present, type, text) == [present |-> present, type |-> type, text |-> text]

\* Severities a decoded report can carry: the three known words, one in
\* capitals, an unknown word, the empty string, no key, JSON null, a number
Severities ==
    {Severity(TRUE, "str", t) : t \in {"minor", "moderate", "major", "MINOR", "severe", ""}}
        \cup {Severity(FALSE, "str", ""),
              Severity(TRUE, "NoneType", ""),
              Severity(TRUE, "int", "")}

\* damage.get("severity", "major")
GetSeverity(severity) ==
    IF severity.present THEN severity ELSE Severity(TRUE, "str", "major")

\* str.lower() on the texts of the model
Lower(text) == IF text = "MINOR" THEN "minor" ELSE text

\* SEVERITY_COLORS.get(severity, DEFAULT_COLOR)
SeverityColor(severity) ==
    IF severity \in DOMAIN SEVERITY_COLORS THEN SEVERITY_COLORS[severity]
    ELSE DEFAULT_COLOR

\* img.size of the opened image, in pixels
ImageSizes == {[width |-> 20, height |-> 20],
               [width |-> 100, height |-> 80],
               [width |-> 640, height |-> 480]}

\* draw.textbbox((0, 0), label, font): width and height of the label text
TextSizes == {[width |-> 10, height |-> 12],
              [width |-> 96, height |-> 12],
              [width |-> 200, height |-> 14]}

\* Boxes at the left edge and at the right edge of the image
LeftBox == BoundingBox(BoxKeys, 0, 60, 25, 100)

RightBox == BoundingBox(BoxKeys, 90, 0, 100, 50)

\* int(pct * size) with pct in hundredths
Pixels(pct, size) == (pct * size) \div 100

DrStart(severity, size, bbox, text) ==
    [pc |-> "item", severity |-> severity, img_width |-> size.width,
     img_height |-> size.height, bounding_box |-> bbox,
     text_width |-> text.width, text_height |-> text.height,
     color |-> None, bg_left |-> 0, bg_top |-> 0, bg_right |-> 0, bg_bottom |-> 0]

\* Lines 72-130, the body of the loop for one item: an invalid box is
\* skipped; .lower() on a severity that is no string raises AttributeError,
\* which leaves draw_bounding_boxes (lines 135-137); otherwise the
\* rectangle and the label background are drawn in the severity's colour.
DrawItem ==
    /\ dr.pc = "item"
    /\ LET bbox == dr.bounding_box
           x1 == Pixels(BoxGet(bbox, "x_min_pct"), dr.img_width)
           y1 == Pixels(BoxGet(bbox, "y_min_pct"), dr.img_height)
           severity == GetSeverity(dr.severity)
           label_y0 == IF y1 > dr.text_height + 10
                       THEN y1 - dr.text_height - 8 ELSE y1 + 4
           label_x0 == x1 + 4
           label_x == IF label_x0 + dr.text_width + 8 > dr.img_width
                      THEN dr.img_width - dr.text_width - 8 ELSE label_x0
           label_y == IF label_y0 < 0 THEN y1 + 4 ELSE label_y0
       IN dr' = IF ~ValidBoundingBox(bbox)
                THEN [dr EXCEPT !.pc = "skipped"]
                ELSE IF severity.type # "str"
                THEN [dr EXCEPT !.pc = "raised"]
                ELSE [dr EXCEPT !.pc = "drawn",
                                !.color = SeverityColor(Lower(severity.text)),
                                !.bg_left = label_x - 4,
                                !.bg_top = label_y - 2,
                                !.bg_right = label_x + dr.text_width + 4,
                                !.bg_bottom = label_y + dr.text_height + 2]
    /\ UNCHANGED <<tempFiles, permFiles, bookings, bookingImages, inspections,
                   ai_service, apiKey, nextUuid, up, insp, pz, ann, reloc, cc,
                   cars, carReq, cl, bkReq>>

InitDraw ==
    /\ tempFiles = {}
    /\ permFiles = {}
    /\ bookings = [b \in {1} |-> [car_id |-> 1, inspection_id |-> NoId]]
    /\ bookingImages = <<>>
    /\ inspections = {}
    /\ ai_service = None
    /\ apiKey = TRUE
    /\ nextUuid = 1
    /\ up = UpIdle
    /\ insp = InspIdle
    /\ pz = PzIdle
    /\ ann = AnnIdle
    /\ reloc = RelocIdle
    /\ cc = CcIdle
    /\ cars = <<>>
    /\ carReq = CarReqIdle
    /\ cl = ClIdle
    /\ bkReq = BkReqIdle
    /\ dr \in {DrStart(s, size, b, t) :
                  s \in Severities, size \in ImageSizes,
                  b \in {GoodBox, FlatBox, LeftBox, RightBox}, t \in TextSizes}

NextDraw == DrawItem

SpecDraw == InitDraw /\ [][NextDraw]_vars

----------------------------------------------------------------------------
(* Claims about the drawing of one item (SpecDraw) *)

\* The item of the call has a well-formed box: the loop reaches its drawing
DrawReached == dr.pc \in {"drawn", "raised"}

\* C24: the severity-to-colour mapping is total: green for minor, amber for
\* moderate, red for major and for every other, unknown or missing value;
\* no severity value makes the item, and with it the image, fail to render.
C24_SeverityColourTotal ==
    DrawReached =>
        /\ dr.pc = "drawn"
        /\ LET s == dr.severity
               word == IF s.present /\ s.type = "str" THEN s.text ELSE "absent"
           IN /\ (word = "minor" => dr.color = "#10B981")
              /\ (word = "moderate" => dr.color = "#F59E0B")
              /\ (word \notin {"minor", "moderate", "MINOR"} => dr.color = "#EF4444")

\* C25: the label's background rectangle lies horizontally inside the
\* image: its left edge is >= 0 and its right edge is <= the image width.
C25_LabelInsideImage ==
    dr.pc = "drawn" =>
        /\ dr.bg_left >= 0
        /\ dr.bg_right <= dr.img_width

----------------------------------------------------------------------------
(* main.py get_ai_service, called by successive /inspect requests.         *)
(* inspect_vehicle is an `async def` handler: everything up to the          *)
(* `await ai_service_instance.analyze_damage(...)` of line 354 runs on the  *)
(* event loop without a suspension point, get_ai_service included.          *)

ClRequests == 1..MaxClients

\* Line 194 with every call constructing anew
NeedsConstructionAlways(global) == TRUE

\* Line 194: if ai_service is None
NeedsConstruction(global) == global = None

\* What AIService() does (ai_service.py 117-132):
\*   "ok"          the client object is built
\*   "ValueError"  GEMINI_API_KEY is not set
\*   "error"       genai.configure / GenerativeModel raises something else
ConstructionOutcomes(key) == IF key THEN {"ok", "error"} ELSE {"ValueError"}

ClReqIdle == [pc |-> "start", found |-> None, attempted |-> FALSE,
              got |-> NoId, status |-> 0]

\* Lines 348-353 with get_ai_service (191-201): the global is tested, a
\* missing client is constructed and stored; ValueError is caught and None
\* returned (500); any other exception leaves through the handler's
\* `except Exception` (500).  `object` is the identity of the stored
\* client: the number of the AIService() call that built it.
ClGetAiService(r, outcome) ==
    /\ cl.reqs[r].pc = "start"
    /\ outcome \in ConstructionOutcomes(apiKey)
    /\ IF NeedsConstruction(ai_service)
       THEN IF outcome = "ok"
            THEN /\ ai_service' = "instance"
                 /\ cl' = [cl EXCEPT !.attempts = @ + 1,
                                     !.constructed = @ + 1,
                                     !.object = cl.attempts + 1,
                                     !.reqs[r] = [@ EXCEPT !.pc = "analyze",
                                                           !.found = ai_service,
                                                           !.attempted = TRUE,
                                                           !.got = cl.attempts + 1]]
            ELSE /\ ai_service' = ai_service
                 /\ cl' = [cl EXCEPT !.attempts = @ + 1,
                                     !.reqs[r] = [@ EXCEPT !.pc = "done",
                                                           !.found = ai_service,
                                                           !.attempted = TRUE,
                                                           !.status = 500]]
       ELSE /\ ai_service' = ai_service
            /\ cl' = [cl EXCEPT !.reqs[r] = [@ EXCEPT !.pc = "analyze",
                                                      !.found = ai_service,
                                                      !.got = cl.object]]
    /\ UNCHANGED <<tempFiles, permFiles, bookings, bookingImages, inspections,
                   apiKey, nextUuid, up, insp, pz, ann, reloc, cc,
                   cars, carReq, bkReq, dr>>

\* Line 354 onwards: the awaited analysis comes back and the request ends
ClAnalyze(r, status) ==
    /\ cl.reqs[r].pc = "analyze"
    /\ cl' = [cl EXCEPT !.reqs[r] = [@ EXCEPT !.pc = "done", !.status = status]]
    /\ UNCHANGED <<tempFiles, permFiles, bookings, bookingImages, inspections,
                   ai_service, apiKey, nextUuid, up, insp, pz, ann, reloc, cc,
                   cars, carReq, bkReq, dr>>

ClGetAiServiceAny ==
    \E r \in ClRequests, o \in {"ok", "error", "ValueError"} : ClGetAiService(r, o)

ClAnalyzeAny == \E r \in ClRequests, status \in {200, 500} : ClAnalyze(r, status)

\* A process that has just started: line 188, ai_service = None
InitClient ==
    /\ tempFiles = {}
    /\ permFiles = {}
    /\ bookings = [b \in {1} |-> [car_id |-> 1, inspection_id |-> NoId]]
    /\ bookingImages = <<>>
    /\ inspections = {}
    /\ ai_service = None
    /\ apiKey \in BOOLEAN
    /\ nextUuid = 1
    /\ up = UpIdle
    /\ insp = InspIdle
    /\ pz = PzIdle
    /\ ann = AnnIdle
    /\ reloc = RelocIdle
    /\ cc = CcIdle
    /\ cars = <<>>
    /\ carReq = CarReqIdle
    /\ cl = [attempts |-> 0, constructed |-> 0, object |-> NoId,
             reqs |-> [r \in ClRequests |-> ClReqIdle]]
    /\ bkReq = BkReqIdle
    /\ dr = DrIdle

NextClient ==
    \/ ClGetAiServiceAny
    \/ ClAnalyzeAny

SpecClient == InitClient /\ [][NextClient]_vars

----------------------------------------------------------------------------
(* Claims about the AI client (SpecClient) *)

\* C27: the AI client is constructed at most once per process and reused:
\* after a successful construction every request gets that same object
\* without constructing; a failed construction stores nothing, and the
\* next request that finds no client constructs again.
C27_ClientConstructedOnce ==
    /\ cl.constructed <= 1
    /\ (ai_service = None <=> cl.constructed = 0)
    /\ \A r \in ClRequests :
          cl.reqs[r].pc # "start" =>
              /\ (cl.reqs[r].found = None <=> cl.reqs[r].attempted)
              /\ (cl.reqs[r].found # None => cl.reqs[r].got = cl.object)
              /\ (cl.reqs[r].got # NoId => cl.reqs[r].got = cl.object)
              /\ (cl.reqs[r].got = NoId => cl.reqs[r].status = 500)

\* C27 witness: one request failed to construct, a later one constructed
\* the client, and a third got that object without constructing.
C27_Witness ==
    \E a, b, c \in ClRequests :
        /\ cl.reqs[a].attempted /\ cl.reqs[a].got = NoId /\ cl.reqs[a].pc = "done"
        /\ cl.reqs[b].attempted /\ cl.reqs[b].got = cl.object /\ cl.object # NoId
        /\ ~cl.reqs[c].attempted /\ cl.reqs[c].pc = "done" /\ cl.reqs[c].status = 200
        /\ cl.reqs[c].got = cl.reqs[b].got
        /\ cl.constructed = 1
        /\ cl.attempts = 2

----------------------------------------------------------------------------
(* POST /bookings : create_booking and PUT /bookings/{id} : update_booking. *)
(* Plain `def` handlers run in worker threads, each with its own session:   *)
(* a request validates against the row it loaded, and commits later.        *)

BkRequests == {1, 2}

\* Points in time a booking can start or end
Dates == {1, 2, 3}

\* A NULL booking_end_date; in a payload, an end date given as null
NoDate == 0

\* A date field that an update payload does not carry (exclude_unset=True)
UnsetDate == -1

BookingRow(car_id, booking_start_date, booking_end_date) ==
    [car_id |-> car_id, inspection_id |-> NoId,
     booking_start_date |-> booking_start_date,
     booking_end_date |-> booking_end_date]

\* BookingService.get_booking: the id when the row exists
get_booking(table, booking_id) ==
    IF booking_id \in DOMAIN table THEN booking_id ELSE NoId

\* Lines 883-886: the dates to validate are the payload's, or the loaded
\* row's where the payload has none; rejected when the end precedes the start
DatesRejected(start, end, existing) ==
    LET start_date == IF start # UnsetDate THEN start ELSE existing.booking_start_date
        end_date == IF end \notin {UnsetDate, NoDate} THEN end
                    ELSE existing.booking_end_date
    IN end_date # NoDate /\ end_date < start_date

\* BookingService.update_booking, lines 156-160: the supplied fields are
\* set on the object the session loaded, and the UPDATE writes the columns
\* whose value changed against that loaded state
WrittenColumn(stored, loaded, supplied) ==
    IF supplied # UnsetDate /\ supplied # loaded THEN supplied ELSE stored

BkErrorStatus(exc) == IF exc.type = "HTTPException" THEN exc.status ELSE 500

BkPayloads ==
    {[pc |-> "check", kind |-> "create", booking_id |-> NoId, car_id |-> 1,
      booking_start_date |-> s, booking_end_date |-> e, status |-> 0,
      loaded |-> BookingRow(0, 0, 0), wrote |-> FALSE] :
        s \in Dates, e \in Dates \cup {NoDate}}
    \cup
    {[pc |-> "check", kind |-> "update", booking_id |-> b, car_id |-> NoId,
      booking_start_date |-> s, booking_end_date |-> e, status |-> 0,
      loaded |-> BookingRow(0, 0, 0), wrote |-> FALSE] :
        b \in {1, 2}, s \in Dates \cup {UnsetDate}, e \in Dates \cup {UnsetDate, NoDate}}

BkDone(r, status, wrote) ==
    bkReq' = [bkReq EXCEPT ![r].pc = "done", ![r].status = status,
                           ![r].wrote = wrote]

\* create_booking, lines 699-713
CreateBookingCheck(r) ==
    /\ bkReq[r].pc = "check"
    /\ bkReq[r].kind = "create"
    /\ LET booking == bkReq[r]
       IN IF get_car(cars, booking.car_id) = NoId
          THEN BkDone(r, BkErrorStatus([type |-> "HTTPException", status |-> 400]), FALSE)
          ELSE IF /\ booking.booking_end_date # NoDate
                  /\ booking.booking_end_date < booking.booking_start_date
               THEN BkDone(r, BkErrorStatus([type |-> "HTTPException", status |-> 400]), FALSE)
               ELSE bkReq' = [bkReq EXCEPT ![r].pc = "commit"]
    /\ UNCHANGED <<tempFiles, permFiles, bookings, bookingImages, inspections,
                   ai_service, apiKey, nextUuid, up, insp, pz, ann, reloc, cc,
                   cars, carReq, cl, dr>>

\* create_booking, line 716: BookingService.create_booking (add, commit)
CreateBookingCommit(r) ==
    /\ bkReq[r].pc = "commit"
    /\ bkReq[r].kind = "create"
    /\ bookings' = Append(bookings,
                          BookingRow(bkReq[r].car_id, bkReq[r].booking_start_date,
                                     bkReq[r].booking_end_date))
    /\ BkDone(r, 201, TRUE)
    /\ UNCHANGED <<tempFiles, permFiles, bookingImages, inspections,
                   ai_service, apiKey, nextUuid, up, insp, pz, ann, reloc, cc,
                   cars, carReq, cl, dr>>

\* update_booking, lines 865-900: the row is loaded into the session and
\* the payload's dates are validated against it
UpdateBookingCheck(r) ==
    /\ bkReq[r].pc = "check"
    /\ bkReq[r].kind = "update"
    /\ LET booking == bkReq[r]
           existing == get_booking(bookings, booking.booking_id)
       IN IF existing = NoId
          THEN BkDone(r, BkErrorStatus([type |-> "HTTPException", status |-> 404]), FALSE)
          ELSE IF DatesRejected(booking.booking_start_date,
                                booking.booking_end_date, bookings[existing])
               THEN BkDone(r, BkErrorStatus([type |-> "HTTPException", status |-> 400]), FALSE)
               ELSE bkReq' = [bkReq EXCEPT ![r].pc = "commit",
                                           ![r].loaded = bookings[existing]]
    /\ UNCHANGED <<tempFiles, permFiles, bookings, bookingImages, inspections,
                   ai_service, apiKey, nextUuid, up, insp, pz, ann, reloc, cc,
                   cars, carReq, cl, dr>>

\* update_booking, line 903: BookingService.update_booking (setattr of the
\* supplied fields on the loaded object, commit)
UpdateBookingCommit(r) ==
    /\ bkReq[r].pc = "commit"
    /\ bkReq[r].kind = "update"
    /\ LET booking == bkReq[r]
           id == booking.booking_id
           row == bookings[id]
       IN bookings' = [bookings EXCEPT ![id] =
              [row EXCEPT
                 !.booking_start_date =
                     WrittenColumn(row.booking_start_date,
                                   booking.loaded.booking_start_date,
                                   booking.booking_start_date),
                 !.booking_end_date =
                     WrittenColumn(row.booking_end_date,
                                   booking.loaded.booking_end_date,
                                   booking.booking_end_date)]]
    /\ BkDone(r, 200, TRUE)
    /\ UNCHANGED <<tempFiles, permFiles, bookingImages, inspections,
                   ai_service, apiKey, nextUuid, up, insp, pz, ann, reloc, cc,
                   cars, carReq, cl, dr>>

CreateBookingCheckAny == \E r \in BkRequests : CreateBookingCheck(r)

CreateBookingCommitAny == \E r \in BkRequests : CreateBookingCommit(r)

UpdateBookingCheckAny == \E r \in BkRequests : UpdateBookingCheck(r)

UpdateBookingCommitAny == \E r \in BkRequests : UpdateBookingCommit(r)

\* Tables the earlier requests can have left: one booking, still open or
\* with its end date not before its start date
InitialBookings ==
    { <<BookingRow(1, 1, 3)>>, <<BookingRow(1, 2, NoDate)>> }

InitBookings ==
    /\ tempFiles = {}
    /\ permFiles = {}
    /\ bookings \in InitialBookings
    /\ bookingImages = <<>>
    /\ inspections = {}
    /\ ai_service = None
    /\ apiKey = TRUE
    /\ nextUuid = 1
    /\ up = UpIdle
    /\ insp = InspIdle
    /\ pz = PzIdle
    /\ ann = AnnIdle
    /\ reloc = RelocIdle
    /\ cc = CcIdle
    /\ cars = <<CarRow(1, None, None)>>
    /\ carReq = CarReqIdle
    /\ cl = ClIdle
    /\ bkReq \in [BkRequests -> BkPayloads]
    /\ dr = DrIdle

NextBookings ==
    \/ CreateBookingCheckAny
    \/ CreateBookingCommitAny
    \/ UpdateBookingCheckAny
    \/ UpdateBookingCommitAny

SpecBookings == InitBookings /\ [][NextBookings]_vars

----------------------------------------------------------------------------
(* Claims about the booking handlers (SpecBookings) *)

\* C30: after every interleaving of create-booking and update-booking
\* requests, every stored booking has no end date or an end date that is
\* not before its start date; a rejected request is answered 400 and
\* leaves the bookings as they were.
C30_EndNotBeforeStart ==
    /\ \A b \in DOMAIN bookings :
          \/ bookings[b].booking_end_date = NoDate
          \/ bookings[b].booking_end_date >= bookings[b].booking_start_date
    /\ \A r \in BkRequests :
          (bkReq[r].pc = "done" /\ ~bkReq[r].wrote) => bkReq[r].status \in {400, 404}

----------------------------------------------------------------------------
(* A further claim about the inspection request (SpecInspect) *)

\* C29: the BEFORE and the AFTER images that /inspect hands to the provider
\* are in the order in which they were uploaded, also when images of one
\* batch carry the same created_at.
C29_ImagesInUploadOrder ==
    (insp.pc # "idle" /\ insp.before_paths # <<>>) =>
        /\ insp.before_paths = StoredPaths("before")
        /\ insp.after_paths = StoredPaths("after")

====
